---- MODULE Spec2Model ----
(***************************************************************************)
(* Transactional state manager (src/src/utils/state_manager.py) and the    *)
(* retry-bounded test generation pipeline (src/src/graphs/workflow.py).    *)
(***************************************************************************)
EXTENDS Integers, Sequences, FiniteSets, TLC

\* ------------------------------------------------------------------ bounds
\* set_state, begin, commit and rollback calls per behaviour of the state
\* manager specification
MaxCalls == 4
\* the same for the specification that follows the object a caller holds
CallerMaxCalls == 3
\* the same for the specification of begin/commit pairs
HistMaxCalls == 23
\* transactions begun and not yet committed at one time, in that specification
HistMaxOpen == 1

\* ------------------------------------------------------- program constants
\* StateManager.__init__: self._max_snapshots = 10
MaxSnapshots == 10
\* get_transaction_history(limit=10)
DefaultHistoryLimit == 10

\* ----------------------------------------------------------- project model
\* _validate_state: required_fields
RequiredFields ==
    {"project_path", "project_name", "java_classes",
     "test_classes", "dependencies", "build_status"}

\* _validate_java_class_state: required_fields
ClassRequiredFields == {"name", "file_path", "fields", "methods", "imports"}

\* Python None, and the empty dict that _create_snapshot stores for no state
\* (every value carries the same record fields; only dicts use them)
Value(kind) ==
    [kind |-> kind, keys |-> {}, project_name |-> "",
     messages |-> <<>>, java_classes |-> <<>>]
None == Value("None")
EmptyDict == Value("dict")
\* a truthy value that is no dict (e.g. a non-empty list)
NotADict == Value("list")

\* Python truthiness of a state value: None and {} are falsy
Truthy(x) == x.kind = "list" \/ (x.kind = "dict" /\ x.keys # {})

\* a live LangChain message object (has model_dump)
BaseMsg == [kind |-> "base", content |-> "hi"]

\* _make_serializable, one message:
\* msg.model_dump() if hasattr(msg, 'model_dump') else str(msg)
SerializeMsg(m) ==
    CASE m.kind = "base" -> [kind |-> "dump", content |-> m.content]
      [] m.kind = "dump" -> [kind |-> "str", content |-> "repr(" \o m.content \o ")"]
      [] OTHER -> m

\* _make_serializable: deep copy with the messages list converted
MakeSerializable(state) ==
    IF "messages" \in state.keys
    THEN [state EXCEPT !.messages =
              [i \in 1..Len(state.messages) |-> SerializeMsg(state.messages[i])]]
    ELSE state

\* a JavaClassState dict: the keys it holds and the values the manager reads
JavaClass(keys, name, path, status) ==
    [keys |-> keys, name |-> name, file_path |-> path, status |-> status]

ClassKeys == ClassRequiredFields \cup {"status"}

\* the class records callers pass in
ClassInputs ==
    { JavaClass(ClassKeys, "Foo", "Foo.java", "analyzed"),
      JavaClass(ClassKeys, "Foo", "", "analyzed"),
      JavaClass(ClassKeys, "Foo", "", "pending"),
      JavaClass(ClassKeys \ {"imports"}, "Foo", "Foo.java", "analyzed") }

TopKeys == RequiredFields \cup {"messages"}

ProjectState(keys, name, msgs, classes) ==
    [kind |-> "dict", keys |-> keys, project_name |-> name,
     messages |-> msgs, java_classes |-> classes]

\* the complete, well-formed states callers pass to set_state
ValidInputs ==
    { ProjectState(TopKeys, "A", <<>>, <<>>),
      ProjectState(TopKeys, "A", <<BaseMsg>>, <<>>),
      ProjectState(TopKeys, "B", <<BaseMsg>>,
                   <<JavaClass(ClassKeys, "Foo", "Foo.java", "analyzed")>>) }

\* everything callers pass to set_state: the complete states, ones lacking one
\* required top-level field, ones holding a malformed class record, None, {}
\* and a non-dict
StateInputs ==
    ValidInputs
    \cup { ProjectState(TopKeys \ {f}, "A", <<>>, <<>>) : f \in RequiredFields }
    \cup { ProjectState(TopKeys, "A", <<>>, <<x>>) : x \in ClassInputs }
    \cup {None, EmptyDict, NotADict}

\* _validate_java_class_state without its file_path check
ValidateJavaClassStateNoPathCheck(c) == ClassRequiredFields \subseteq c.keys

\* _validate_java_class_state: TRUE iff it raises no ValidationError
ValidateJavaClassState(c) ==
    /\ ClassRequiredFields \subseteq c.keys
    /\ c.file_path # ""

\* _validate_state: TRUE iff it raises no ValidationError
ValidateState(state) ==
    /\ Truthy(state)
    /\ state.kind = "dict"
    /\ RequiredFields \subseteq state.keys
    /\ \A i \in 1..Len(state.java_classes) :
          ValidateJavaClassState(state.java_classes[i])

\* ------------------------------------------------------------ state manager
VARIABLES
    current_state,   \* StateManager._current_state
    liveShared,      \* TRUE iff _current_state is the very object the caller holds
    snapshots,       \* StateManager._snapshots
    transactions,    \* StateManager._transactions: references to transaction objects
    txObj,           \* the StateTransaction objects created so far, by handle
    callerObj,       \* the state object the caller keeps (passed in or returned)
    last,            \* the last call on the manager and how it ended
    ewr,             \* the execute_with_rollback call in progress, and the last one
    scen,            \* progress of set_state; begin; set_state; rollback
    budget           \* set_state, begin, commit and rollback calls left to the behaviour

smVars == <<current_state, liveShared, snapshots, transactions, txObj,
            callerObj, last, ewr, scen, budget>>

\* the test-generation pipeline (graphs/workflow.py)
VARIABLES
    node,            \* the stage, or conditional edge, the run executes next
    graph,           \* the pipeline state the stages read and update
    max_retries_arg, \* the max_retries argument create_test_generation_workflow got
    executed,        \* how many times each stage has been executed in this run
    route,           \* the last conditional edge evaluated and what it returned
    validated        \* what the validate stage has reported so far in this run

pipeVars == <<node, graph, max_retries_arg, executed, route, validated>>

\* the utilities around the manager (utils/state_diff.py)
VARIABLES
    hash_order,      \* the order this process iterates a set of names in
    diff_call,       \* the last diff_states call: its arguments and its outcome
    diff_prev        \* the diff_states call before it

diffVars == <<hash_order, diff_call, diff_prev>>

\* the filesystem verify_state_consistency looks at, and its last call
VARIABLES
    fs,              \* whether the project directory exists, and each file's mtime
    verify_call      \* the last verify_state_consistency call and its report

verifyVars == <<fs, verify_call>>

\* threads sharing one manager
VARIABLES
    threads          \* each thread's place in its read-modify-write sequence

threadVars == <<threads>>

\* a run of the pipeline ended by an exception
VARIABLES
    crash            \* the stage whose collaborator raised, and the state it was given

crashVars == <<crash>>

\* one begin ... rollback attempt on the manager, followed step by step
VARIABLES
    attempt          \* the manager as it was at begin_transaction and at rollback

attemptVars == <<attempt>>

\* the cache manager (utils/caching.py)
VARIABLES
    cache,           \* CacheManager._cache (its keys), _access_order, _max_size
    recent,          \* the cached keys in the order of their last put or get
    cache_call       \* the last call on the cache and what it evicted

cacheVars == <<cache, recent, cache_call>>

\* class_analysis_node (workflow.py line 36)
VARIABLES
    analysis_results \* the node's list results: what the agent returned per class

analysisVars == <<analysis_results>>

lateVars == <<attemptVars, cacheVars, analysisVars>>

utilVars == <<diffVars, verifyVars, threadVars, crashVars, lateVars>>

NoDiffCall == [op |-> "none"]

\* diff_states has not been called
DiffIdle ==
    /\ hash_order = <<>>
    /\ diff_call = NoDiffCall
    /\ diff_prev = NoDiffCall

NoFiles == [dir |-> FALSE, files |-> <<>>]
NoVerifyCall == [op |-> "none"]

\* verify_state_consistency has not been called
VerifyIdle ==
    /\ fs = NoFiles
    /\ verify_call = NoVerifyCall

\* no thread has been started
NoThreads == threads = <<>>

NoCrash == [stage |-> "none"]

\* no stage has raised
NotCrashed == crash = NoCrash

NoAttempt == [stage |-> "none"]
NoCache == [keys |-> {}, access_order |-> <<>>, max_size |-> 0]
NoCacheCall == [op |-> "none"]

\* no attempt is followed, no cache has been created, no class analysed
LateIdle ==
    /\ analysis_results = <<>>
    /\ attempt = NoAttempt
    /\ cache = NoCache
    /\ recent = <<>>
    /\ cache_call = NoCacheCall

\* no utility has been called
UtilIdle == DiffIdle /\ VerifyIdle /\ NoThreads /\ NotCrashed /\ LateIdle

NoRoute == [fn |-> "", result |-> ""]

\* no workflow has been created
NoRun ==
    /\ node = "none"
    /\ graph = [keys |-> {}]
    /\ max_retries_arg = 0
    /\ executed = <<>>
    /\ route = NoRoute
    /\ validated = "never"

NoSnapshot == [state_data |-> None, operation |-> ""]
NoScenario == [stage |-> "none", tx |-> 0, s0 |-> None]
IdleEwr == [pc |-> "idle", tx |-> 0, exc |-> "", pre |-> None]

Call(op, arg, tx, raised, defect) ==
    [op |-> op, arg |-> arg, tx |-> tx, raised |-> raised, defect |-> defect]

\* what the documentation of set_state names as a reason to refuse a state
Defect(state) ==
    IF state.kind # "dict" \/ state.keys = {} THEN "not_a_state"
    ELSE IF ~(RequiredFields \subseteq state.keys) THEN "missing_top_level_field"
    ELSE IF \E i \in 1..Len(state.java_classes) :
               ~(ClassRequiredFields \subseteq state.java_classes[i].keys)
         THEN "class_missing_field"
    ELSE IF \E i \in 1..Len(state.java_classes) :
               /\ "status" \in state.java_classes[i].keys
               /\ state.java_classes[i].status = "analyzed"
               /\ state.java_classes[i].file_path = ""
         THEN "analyzed_without_file_path"
    ELSE "none"

\* set_state storing the serialised form instead of a deep copy
CopyInSerialized(state) == MakeSerializable(state)

\* copy.deepcopy(state) in set_state: the value stored in the live slot
CopyIn(state) == state

\* set_state storing the caller's object itself (no deepcopy)
CopyInSharesCallerObject == TRUE

\* whether the object set_state stores is the caller's own object:
\* copy.deepcopy returns a fresh object
CopyInShares == FALSE

\* get_state's return value:
\* copy.deepcopy(self._current_state) if self._current_state else None
CopyOut(cur) == IF Truthy(cur) THEN cur ELSE None

\* whether get_state hands out the live object itself
CopyOutShares(cur) == FALSE

\* set_state assigning the live slot before it validates
AssignedBeforeValidation(cur, state) == state

\* set_state on a state that fails _validate_state: the ValidationError is
\* raised before the assignment, the live slot keeps its value
SetStateOnInvalid(cur, state) == cur

\* StateSnapshot built by _create_snapshot (timestamp and checksum are
\* functions of the capture time and of state_data and are left out)
Snapshot(cur, operation) ==
    IF Truthy(cur)
    THEN [state_data |-> MakeSerializable(cur), operation |-> operation]
    ELSE [state_data |-> EmptyDict, operation |-> operation]

\* a ring that refuses the new snapshot once it is full
RingAfterSnapshotKeepOldest(cur, snaps, operation) ==
    IF Truthy(cur) /\ Len(snaps) < MaxSnapshots
    THEN Append(snaps, Snapshot(cur, operation))
    ELSE snaps

\* the ring after _create_snapshot: appended and capped for a truthy state,
\* untouched otherwise
RingAfterSnapshot(cur, snaps, operation) ==
    IF Truthy(cur)
    THEN LET appended == Append(snaps, Snapshot(cur, operation))
         IN  IF Len(appended) > MaxSnapshots THEN Tail(appended) ELSE appended
    ELSE snaps

\* self._snapshots.pop() when more than one snapshot is held
RingAfterRollback(snaps) ==
    IF Len(snaps) > 1 THEN SubSeq(snaps, 1, Len(snaps) - 1) ELSE snaps

\* copy.deepcopy(transaction.before_snapshot.state_data)
RestoredState(tx) == tx.before_snapshot.state_data

\* the labels callers give their transactions
Labels == {"tx"}

SMInit(calls) ==
    /\ current_state = None
    /\ liveShared = FALSE
    /\ snapshots = <<>>
    /\ transactions = <<>>
    /\ txObj = <<>>
    /\ callerObj = None
    /\ last = Call("init", None, 0, "", "none")
    /\ ewr = IdleEwr
    /\ scen = NoScenario
    /\ budget = calls

\* ---- set_state (lines 68-73), shared by the direct call and by calls made
\* from inside the function execute_with_rollback runs
set_state(state) ==
    /\ budget > 0
    /\ budget' = budget - 1
    /\ IF ValidateState(state)
       THEN /\ current_state' = CopyIn(state)
            /\ snapshots' = RingAfterSnapshot(CopyIn(state), snapshots, "set_state")
       ELSE /\ current_state' = SetStateOnInvalid(current_state, state)
            /\ UNCHANGED snapshots

SetStateCall(state) ==
    IF ValidateState(state)
    THEN Call("set_state", state, 0, "", Defect(state))
    ELSE Call("set_state", None, 0, "ValidationError", Defect(state))

ScenarioAfterSet(state) ==
    IF ~ValidateState(state) THEN NoScenario
    ELSE IF scen.stage = "begun"
         THEN [scen EXCEPT !.stage = "set1"]
         ELSE [stage |-> "set0", tx |-> 0, s0 |-> state]

\* the caller passes a state and keeps no reference to it
SetState(state) ==
    /\ ewr.pc = "idle"
    /\ set_state(state)
    /\ liveShared' = IF ValidateState(state) THEN FALSE ELSE liveShared
    /\ callerObj' = None
    /\ last' = SetStateCall(state)
    /\ scen' = ScenarioAfterSet(state)
    /\ UNCHANGED <<transactions, txObj, ewr>>
    /\ UNCHANGED <<pipeVars, utilVars>>

\* the caller passes a state object and keeps it
SetStateKeep(state) ==
    /\ ewr.pc = "idle"
    /\ set_state(state)
    /\ liveShared' = IF ValidateState(state) THEN CopyInShares ELSE liveShared
    /\ callerObj' = state
    /\ last' = SetStateCall(state)
    /\ scen' = ScenarioAfterSet(state)
    /\ UNCHANGED <<transactions, txObj, ewr>>
    /\ UNCHANGED <<pipeVars, utilVars>>

\* get_state (lines 63-66)
GetState ==
    /\ ewr.pc = "idle"
    /\ last.op # "get_state"
    /\ callerObj' = CopyOut(current_state)
    /\ liveShared' = (Truthy(current_state) /\ CopyOutShares(current_state))
    /\ last' = Call("get_state", None, 0, "", "none")
    /\ UNCHANGED <<current_state, snapshots, transactions, txObj, ewr, scen, budget>>
    /\ UNCHANGED <<pipeVars, utilVars>>

\* what a caller does to a dict it holds: rename the project, or blank the
\* file_path of its first class
Mutated(obj, how) ==
    IF how = "rename" THEN [obj EXCEPT !.project_name = "X"]
    ELSE IF Len(obj.java_classes) > 0
         THEN [obj EXCEPT !.java_classes[1].file_path = ""]
         ELSE obj

\* the caller mutates the dict it holds; the live state changes with it only
\* if it is the same object
CallerMutate(how) ==
    /\ ewr.pc = "idle"
    /\ callerObj.kind = "dict"
    /\ Mutated(callerObj, how) # callerObj
    /\ callerObj' = Mutated(callerObj, how)
    /\ current_state' = IF liveShared THEN Mutated(callerObj, how) ELSE current_state
    /\ last' = Call("caller_mutate", None, 0, "", "none")
    /\ scen' = NoScenario
    /\ UNCHANGED <<liveShared, snapshots, transactions, txObj, ewr, budget>>
    /\ UNCHANGED <<pipeVars, utilVars>>

\* begin_transaction (lines 126-136): the new StateTransaction object
NewTransaction(cur, operation) ==
    [operation |-> operation,
     before_snapshot |-> Snapshot(cur, operation),
     after_snapshot |-> NoSnapshot,
     success |-> FALSE,
     error |-> ""]

begin_transaction(operation) ==
    /\ budget > 0
    /\ budget' = budget - 1
    /\ snapshots' = RingAfterSnapshot(current_state, snapshots, operation)
    /\ txObj' = Append(txObj, NewTransaction(current_state, operation))

BeginTransaction(operation) ==
    /\ ewr.pc = "idle"
    /\ begin_transaction(operation)
    /\ last' = Call("begin_transaction", None, Len(txObj) + 1, "", "none")
    /\ scen' = IF scen.stage = "set0"
               THEN [scen EXCEPT !.stage = "begun", !.tx = Len(txObj) + 1]
               ELSE NoScenario
    /\ UNCHANGED <<current_state, liveShared, transactions, callerObj, ewr>>
    /\ UNCHANGED <<pipeVars, utilVars>>

\* commit_transaction leaving out transaction.success = True
CommittedWithoutSuccess(tx, cur) ==
    [tx EXCEPT !.after_snapshot = Snapshot(cur, tx.operation)]

\* commit_transaction (lines 138-144): the transaction object after the call
Committed(tx, cur) ==
    [tx EXCEPT !.after_snapshot = Snapshot(cur, tx.operation),
               !.success = TRUE]

commit_transaction(t) ==
    /\ snapshots' = RingAfterSnapshot(current_state, snapshots, txObj[t].operation)
    /\ txObj' = [txObj EXCEPT ![t] = Committed(txObj[t], current_state)]
    /\ transactions' = Append(transactions, t)

\* rollback_transaction (lines 146-156): the transaction object after the call
RolledBack(tx, error) ==
    [tx EXCEPT !.success = FALSE, !.error = error]

\* if transaction.before_snapshot: a StateSnapshot object is truthy whatever
\* it holds; only a handle built with no snapshot at all skips the rollback
HasBeforeSnapshot(tx) == tx.before_snapshot # NoSnapshot

rollback_transaction(t, error) ==
    /\ IF HasBeforeSnapshot(txObj[t])
       THEN /\ current_state' = RestoredState(txObj[t])
            /\ liveShared' = FALSE
            /\ txObj' = [txObj EXCEPT ![t] = RolledBack(txObj[t], error)]
            /\ transactions' = Append(transactions, t)
            /\ snapshots' = RingAfterRollback(snapshots)
       ELSE UNCHANGED <<current_state, liveShared, txObj, transactions, snapshots>>

CommitTransaction(t) ==
    /\ ewr.pc = "idle"
    /\ budget > 0
    /\ budget' = budget - 1
    /\ commit_transaction(t)
    /\ last' = Call("commit_transaction", None, t, "", "none")
    /\ scen' = NoScenario
    /\ UNCHANGED <<current_state, liveShared, callerObj, ewr>>
    /\ UNCHANGED <<pipeVars, utilVars>>

RollbackTransaction(t, error) ==
    /\ ewr.pc = "idle"
    /\ budget > 0
    /\ budget' = budget - 1
    /\ rollback_transaction(t, error)
    /\ last' = Call("rollback_transaction", None, t, "", "none")
    /\ scen' = IF scen.stage = "set1" /\ scen.tx = t
               THEN [scen EXCEPT !.stage = "rolled"]
               ELSE NoScenario
    /\ UNCHANGED <<callerObj, ewr>>
    /\ UNCHANGED <<pipeVars, utilVars>>

\* invalidate_class_state (lines 285-295): the live dict after the in-place
\* update of the first class named class_name
Invalidated(cur, class_name) ==
    IF \E i \in 1..Len(cur.java_classes) : cur.java_classes[i].name = class_name
    THEN LET i == CHOOSE j \in 1..Len(cur.java_classes) :
                    /\ cur.java_classes[j].name = class_name
                    /\ \A k \in 1..(j - 1) : cur.java_classes[k].name # class_name
         IN  [cur EXCEPT !.java_classes[i].status = "stale",
                         !.java_classes[i].keys = @ \cup {"status"}]
    ELSE cur

InvalidateClassState(class_name) ==
    /\ ewr.pc = "idle"
    /\ last.op # "invalidate_class_state"
    /\ current_state' = IF Truthy(current_state)
                        THEN Invalidated(current_state, class_name)
                        ELSE current_state
    /\ callerObj' = IF liveShared /\ Truthy(current_state)
                    THEN Invalidated(current_state, class_name)
                    ELSE callerObj
    /\ last' = Call("invalidate_class_state", None, 0, "", "none")
    /\ scen' = NoScenario
    /\ UNCHANGED <<liveShared, snapshots, transactions, txObj, ewr, budget>>
    /\ UNCHANGED <<pipeVars, utilVars>>

\* clear_state (lines 297-302)
ClearState ==
    /\ ewr.pc = "idle"
    /\ last.op # "clear_state"
    /\ current_state' = None
    /\ liveShared' = FALSE
    /\ snapshots' = <<>>
    /\ transactions' = <<>>
    /\ last' = Call("clear_state", None, 0, "", "none")
    /\ scen' = NoScenario
    /\ UNCHANGED <<txObj, callerObj, ewr, budget>>
    /\ UNCHANGED <<pipeVars, utilVars>>

\* ---- execute_with_rollback (lines 206-226), one step per call it makes.
\* The function it runs calls set_state zero or more times and then returns
\* or raises; on_error is not supplied.
Exceptions == {"ValueError", "RuntimeError"}

\* transaction = self.begin_transaction(operation)
EwrBegin ==
    /\ ewr.pc = "idle"
    /\ begin_transaction("ewr")
    /\ ewr' = [pc |-> "func", tx |-> Len(txObj) + 1, exc |-> "",
               pre |-> CopyOut(current_state)]
    /\ last' = Call("begin_transaction", None, Len(txObj) + 1, "", "none")
    /\ scen' = NoScenario
    /\ UNCHANGED <<current_state, liveShared, transactions, callerObj>>
    /\ UNCHANGED <<pipeVars, utilVars>>

\* func() calls set_state; a ValidationError leaves func
EwrFuncSetState(state) ==
    /\ ewr.pc = "func"
    /\ set_state(state)
    /\ liveShared' = IF ValidateState(state) THEN FALSE ELSE liveShared
    /\ ewr' = IF ValidateState(state) THEN ewr
              ELSE [ewr EXCEPT !.pc = "except", !.exc = "ValidationError"]
    /\ last' = SetStateCall(state)
    /\ UNCHANGED <<transactions, txObj, callerObj, scen>>
    /\ UNCHANGED <<pipeVars, utilVars>>

\* func() raises
EwrFuncRaise(e) ==
    /\ ewr.pc = "func"
    /\ ewr' = [ewr EXCEPT !.pc = "except", !.exc = e]
    /\ last' = Call("func", None, 0, e, "none")
    /\ UNCHANGED <<current_state, liveShared, snapshots, transactions, txObj,
                   callerObj, scen, budget>>
    /\ UNCHANGED <<pipeVars, utilVars>>

\* raise e: the exception that leaves execute_with_rollback
Reraised(e) == e

\* func() returned: commit_transaction, return result
EwrReturn ==
    /\ ewr.pc = "func"
    /\ commit_transaction(ewr.tx)
    /\ ewr' = [ewr EXCEPT !.pc = "idle"]
    /\ last' = Call("execute_with_rollback", None, ewr.tx, "", "none")
    /\ UNCHANGED <<current_state, liveShared, callerObj, scen, budget>>
    /\ UNCHANGED <<pipeVars, utilVars>>

\* except Exception as e: rollback_transaction(transaction, str(e)); raise e
EwrExcept ==
    /\ ewr.pc = "except"
    /\ rollback_transaction(ewr.tx, ewr.exc)
    /\ ewr' = [ewr EXCEPT !.pc = "idle"]
    /\ last' = Call("execute_with_rollback", None, ewr.tx, Reraised(ewr.exc), "none")
    /\ UNCHANGED <<callerObj, scen, budget>>
    /\ UNCHANGED <<pipeVars, utilVars>>

\* the manager driven through its mutating calls
SMNext ==
    \/ \E s \in StateInputs : SetState(s)
    \/ \E l \in Labels : BeginTransaction(l)
    \/ \E t \in 1..Len(txObj) : CommitTransaction(t)
    \/ \E t \in 1..Len(txObj) : RollbackTransaction(t, "reason")
    \/ \E n \in {"Foo"} : InvalidateClassState(n)
    \/ ClearState
    \/ EwrBegin
    \/ \E s \in StateInputs : EwrFuncSetState(s)
    \/ \E e \in Exceptions : EwrFuncRaise(e)
    \/ EwrReturn
    \/ EwrExcept

\* the manager and a caller that keeps the state objects it passes and gets
CallerNext ==
    \/ \E s \in ValidInputs \cup {callerObj} : SetStateKeep(s)
    \/ GetState
    \/ \E how \in {"rename", "blank_path"} : CallerMutate(how)
    \/ \E l \in Labels : BeginTransaction(l)
    \/ \E t \in 1..Len(txObj) : CommitTransaction(t)
    \/ \E t \in 1..Len(txObj) : RollbackTransaction(t, "reason")
    \/ \E n \in {"Foo"} : InvalidateClassState(n)

vars == <<smVars, pipeVars, utilVars>>

\* a fresh manager (__init__, lines 56-61)
Init == SMInit(MaxCalls) /\ NoRun /\ UtilIdle

Spec == Init /\ [][SMNext]_vars

\* a fresh manager and a caller holding nothing (__init__, lines 56-61)
CallerInit == SMInit(CallerMaxCalls) /\ NoRun /\ UtilIdle

SpecCaller == CallerInit /\ [][CallerNext]_vars

\* self._transactions, without the slice
HistorySliceUnlimited(txs, limit) == txs

\* get_transaction_history (lines 201-204): self._transactions[-limit:], as
\* deep copies of the transaction objects
HistorySlice(txs, limit) ==
    IF limit = 0 \/ limit >= Len(txs) THEN txs
    ELSE SubSeq(txs, Len(txs) - limit + 1, Len(txs))

get_transaction_history(limit) ==
    [i \in 1..Len(HistorySlice(transactions, limit)) |->
        txObj[HistorySlice(transactions, limit)[i]]]

\* handles begun and not committed
OpenHandles == {t \in 1..Len(txObj) : txObj[t].after_snapshot = NoSnapshot}

\* begin/commit pairs only: every handle is committed once, no rollback, no
\* clear; the state is loaded once, at any point
HistNext ==
    \/ (current_state = None /\ SetState(ProjectState(TopKeys, "A", <<>>, <<>>)))
    \/ (Cardinality(OpenHandles) < HistMaxOpen /\ BeginTransaction("tx"))
    \/ \E t \in OpenHandles : CommitTransaction(t)

\* a fresh manager (__init__, lines 56-61)
HistInit == SMInit(HistMaxCalls) /\ NoRun /\ UtilIdle

SpecHistory == HistInit /\ [][HistNext]_vars

\* ---------------------------------------------------------------- pipeline
\* bound: the largest retry_count and max_retries a routed state holds
RouteMaxCount == 4

\* state.get("all_tests_passed", True), state.get("retry_count", 0) and
\* state.get("max_retries", 3) in should_validate
DefaultAllTestsPassed == TRUE
DefaultRetryCount == 0
DefaultMaxRetries == 3

\* the stages added to the graph (lines 166-173)
Nodes == {"analyze_project", "class_analysis", "generate_test", "review_test",
          "validate_test", "fix_test", "project_validator", "end_failed"}

NotExecuted == [n \in Nodes |-> 0]

\* a pipeline state: a dict; a key outside keys is absent and its field here
\* holds a fixed filler
GraphState(keys, classes, tests, retry_count, max_retries, all_passed) ==
    [keys |-> keys,
     java_classes |-> classes,
     test_classes |-> tests,
     retry_count |-> IF "retry_count" \in keys THEN retry_count ELSE 0,
     max_retries |-> IF "max_retries" \in keys THEN max_retries ELSE 0,
     all_tests_passed |-> IF "all_tests_passed" \in keys THEN all_passed ELSE FALSE,
     test_results |-> {},
     build_status |-> "",
     summary_report |-> "",
     last_action |-> ""]

\* dict.get(key, default)
Get(state, key, default) == IF key \in state.keys THEN state[key] ELSE default

\* the dict a stage returns, merged into the pipeline state: f is the state
\* with the returned values written, returned the keys the stage returned
Merged(f, returned) == [f EXCEPT !.keys = @ \cup returned]

RetriesLeftInclusive(retry_count, max_retries) == retry_count <= max_retries

\* retry_count < max_retries (line 152)
RetriesLeft(retry_count, max_retries) == retry_count < max_retries

\* should_validate testing the retries before the validation result
ShouldValidateRetriesFirst(state) ==
    LET all_passed == Get(state, "all_tests_passed", DefaultAllTestsPassed)
        retry_count == Get(state, "retry_count", DefaultRetryCount)
        max_retries == Get(state, "max_retries", DefaultMaxRetries)
    IN  IF ~RetriesLeft(retry_count, max_retries) THEN "end_failed"
        ELSE IF all_passed THEN "project_validator"
        ELSE "fix_test"

\* should_validate (lines 145-155)
should_validate(state) ==
    LET all_passed == Get(state, "all_tests_passed", DefaultAllTestsPassed)
        retry_count == Get(state, "retry_count", DefaultRetryCount)
        max_retries == Get(state, "max_retries", DefaultMaxRetries)
    IN  IF all_passed THEN "project_validator"
        ELSE IF RetriesLeft(retry_count, max_retries) THEN "fix_test"
        ELSE "end_failed"

\* should_continue_review looking at the first test class only
ShouldContinueReviewFirstOnly(state) ==
    LET test_classes == Get(state, "test_classes", <<>>)
    IN  IF test_classes = <<>> THEN "validate_test"
        ELSE IF test_classes[1].status \in {"needs_fixes", "review_comments"}
             THEN "generate_test"
             ELSE "validate_test"

\* should_continue_review (lines 133-143)
should_continue_review(state) ==
    LET test_classes == Get(state, "test_classes", <<>>)
    IN  IF test_classes = <<>> THEN "validate_test"
        ELSE IF \E i \in 1..Len(test_classes) :
                   test_classes[i].status \in {"needs_fixes", "review_comments"}
             THEN "generate_test"
             ELSE "validate_test"

\* the conditional edge out of validate_test (lines 189-197)
ShouldValidate ==
    /\ node = "should_validate"
    /\ route' = [fn |-> "should_validate", result |-> should_validate(graph)]
    /\ node' = should_validate(graph)
    /\ UNCHANGED <<graph, max_retries_arg, executed, validated>>
    /\ UNCHANGED <<smVars, utilVars>>

\* the conditional edge out of review_test (lines 180-187)
ShouldContinueReview ==
    /\ node = "should_continue_review"
    /\ route' = [fn |-> "should_continue_review",
                 result |-> should_continue_review(graph)]
    /\ node' = should_continue_review(graph)
    /\ UNCHANGED <<graph, max_retries_arg, executed, validated>>
    /\ UNCHANGED <<smVars, utilVars>>

\* the states should_validate is applied to: every combination of
\* all_tests_passed, retry_count and max_retries, each present or absent
RoutingInputs ==
    {GraphState(K \cup {"java_classes", "test_classes"}, <<>>, <<>>, rc, mr, a) :
        K \in SUBSET {"all_tests_passed", "retry_count", "max_retries"},
        a \in BOOLEAN, rc \in 0..RouteMaxCount, mr \in 0..RouteMaxCount}

RoutingInit ==
    /\ SMInit(0)
    /\ UtilIdle
    /\ node = "should_validate"
    /\ graph \in RoutingInputs
    /\ max_retries_arg = DefaultMaxRetries
    /\ executed = NotExecuted
    /\ route = NoRoute
    /\ validated = "never"

RoutingNext == ShouldValidate

SpecRouting == RoutingInit /\ [][RoutingNext]_vars

\* bound: the largest max_retries a run is created or started with
PipeMaxRetries == 3
\* bound: how many times one run may enter generate_test
PipeMaxPasses == 2

\* a class record analyze_project returns: status "analyzed" with its content,
\* or status "error" with content None (analyze_project.py lines 48-58, 81-90)
AnalyzedClass(name) == [name |-> name, status |-> "analyzed", has_content |-> TRUE]
ErroredClass(name) == [name |-> name, status |-> "error", has_content |-> FALSE]

\* what analyze_project finds in the project directory
ProjectContents ==
    {<<>>, <<AnalyzedClass("Foo")>>, <<ErroredClass("Foo")>>,
     <<ErroredClass("Bar"), AnalyzedClass("Foo")>>}

\* f"{class_name}Test" (generate_test.py line 29)
TestClassName(class_name) ==
    CASE class_name = "Foo" -> "FooTest"
      [] class_name = "Bar" -> "BarTest"
      [] OTHER -> "Test"

\* the test class record generate_test builds (generate_test.py lines 37-45);
\* obj tells the dict objects apart: two entries of test_classes with the same
\* obj are one dict
TestClassState(obj, class_name) ==
    [obj |-> obj, name |-> TestClassName(class_name),
     target_class |-> class_name, status |-> "generated"]

\* test_class["status"] = status on the dict obj, seen through every entry
\* that is this dict
StatusSet(tests, obj, status) ==
    [i \in 1..Len(tests) |->
        IF tests[i].obj = obj THEN [tests[i] EXCEPT !.status = status]
        ELSE tests[i]]

\* the statuses the review and the validation agents assign
\* (review_test.py lines 25-28, validate_test.py lines 43-78)
ReviewStatuses == {"needs_fixes", "reviewed"}
ValidationStatuses == {"passed", "failed", "error", "compilation_failed"}

\* the states a run is started with: main.py lines 60-70, and callers that
\* leave max_retries out or give another value
InitialStates ==
    {GraphState(K, <<>>, <<>>, 0, mr, FALSE) :
        K \in {{"java_classes", "test_classes", "retry_count", "all_tests_passed"},
               {"java_classes", "test_classes", "retry_count", "all_tests_passed",
                "max_retries"}},
        mr \in 0..PipeMaxRetries}

\* create_test_generation_workflow(llm, max_retries) (lines 14-24, 164-203)
\* and the run started at START (line 175)
PipelineInit ==
    /\ SMInit(0)
    /\ UtilIdle
    /\ node = "analyze_project"
    /\ graph \in InitialStates
    /\ max_retries_arg \in 0..PipeMaxRetries
    /\ executed = NotExecuted
    /\ route = NoRoute
    /\ validated = "never"

\* a stage runs and the graph follows the edge out of it
Ran(stage, next) ==
    /\ node = stage
    /\ executed' = [executed EXCEPT ![stage] = @ + 1]
    /\ node' = next
    /\ UNCHANGED <<max_retries_arg, route>>
    /\ UNCHANGED <<smVars, utilVars>>

\* analyze_project_node (lines 26-28), edge at line 176
AnalyzeProject(found) ==
    /\ Ran("analyze_project", "class_analysis")
    /\ graph' = Merged([graph EXCEPT !.java_classes = found,
                                     !.last_action = "analyzed_project"],
                       {"java_classes", "last_action"})
    /\ UNCHANGED validated

\* class_analysis_node (lines 30-43), edge at line 177: the per-class results
\* are collected and dropped
ClassAnalysis ==
    /\ Ran("class_analysis", "generate_test")
    /\ graph' = Merged([graph EXCEPT !.last_action =
                           IF Get(graph, "java_classes", <<>>) = <<>>
                           THEN "class_analysis_skipped"
                           ELSE "class_analysis_completed"],
                       {"last_action"})
    /\ UNCHANGED validated

\* bound: the longest test_classes list should_continue_review is applied to
ReviewMaxTests == 3

\* the statuses a test class record can hold: the ones the agents assign
\* (generate_test.py line 42, review_test.py lines 25-28, validate_test.py
\* lines 43-78, fix_test.py line 39) and the second one should_continue_review
\* looks for (line 140)
TestStatuses_All ==
    {"generated", "needs_fixes", "reviewed", "review_comments", "passed",
     "failed", "fixed"}

\* the states should_continue_review is applied to: no test_classes key, and
\* every list of up to ReviewMaxTests test classes with any statuses
ReviewRoutingInputs ==
    {GraphState({"java_classes"}, <<>>, <<>>, 0, 0, FALSE)}
    \cup
    {GraphState({"java_classes", "test_classes"}, <<>>,
                [i \in 1..n |-> [TestClassState(i, "Foo") EXCEPT !.status = st[i]]],
                0, 0, FALSE) :
        n \in 0..ReviewMaxTests, st \in [1..ReviewMaxTests -> TestStatuses_All]}

ReviewRoutingInit ==
    /\ SMInit(0)
    /\ UtilIdle
    /\ node = "should_continue_review"
    /\ graph \in ReviewRoutingInputs
    /\ max_retries_arg = DefaultMaxRetries
    /\ executed = NotExecuted
    /\ route = NoRoute
    /\ validated = "never"

ReviewRoutingNext == ShouldContinueReview

SpecReviewRouting == ReviewRoutingInit /\ [][ReviewRoutingNext]_vars

RECURSIVE Generated(_, _)
\* the loop of generate_test_node (lines 53-58): the agent appends a test
\* class for a class with content and returns no test_classes for one without
\* (generate_test.py lines 22-23, 47-50)
Generated(classes, tests) ==
    IF classes = <<>> THEN tests
    ELSE Generated(Tail(classes),
                   IF Head(classes).has_content
                   THEN Append(tests, TestClassState(Len(tests) + 1, Head(classes).name))
                   ELSE tests)

\* generate_test_node (lines 45-60), edge at line 178
GenerateTest ==
    /\ executed["generate_test"] < PipeMaxPasses
    /\ Ran("generate_test", "review_test")
    /\ graph' =
          IF Get(graph, "java_classes", <<>>) = <<>>
          THEN Merged([graph EXCEPT !.last_action = "generate_test_failed"],
                      {"last_action"})
          ELSE Merged([graph EXCEPT
                          !.test_classes = Generated(graph.java_classes,
                                                     Get(graph, "test_classes", <<>>)),
                          !.last_action = "tests_generated"],
                      {"test_classes", "last_action"})
    /\ UNCHANGED validated

RECURSIVE StatusesAssigned(_, _, _)
\* a per-class loop whose agent writes the status into the class's dict
\* (review_test.py lines 22-28, validate_test.py lines 26-28): classes i..
StatusesAssigned(tests, statuses, i) ==
    IF i > Len(tests) THEN tests
    ELSE StatusesAssigned(StatusSet(tests, tests[i].obj, statuses[i]), statuses, i + 1)

\* review_test_node (lines 62-76), followed by the conditional edge
ReviewTest(verdicts) ==
    /\ Ran("review_test", "should_continue_review")
    /\ graph' = Merged([graph EXCEPT
                           !.test_classes = StatusesAssigned(Get(graph, "test_classes", <<>>),
                                                             verdicts, 1),
                           !.last_action = "tests_reviewed"],
                       {"test_classes", "last_action"})
    /\ UNCHANGED validated

\* all_test_results of validate_test_node (lines 83, 92): by test name, the
\* result of the last class of that name
TestResults(tests, results) ==
    {[name |-> tests[i].name, success |-> results[i] = "passed"] :
        i \in {k \in 1..Len(tests) :
                 \A j \in (k + 1)..Len(tests) : tests[j].name # tests[k].name}}

\* all_passed of validate_test_node (lines 81, 94-95)
AllPassed(results) == \A i \in 1..Len(results) : results[i] = "passed"

\* validate_test_node (lines 78-102), followed by the conditional edge
ValidateTest(results) ==
    /\ Ran("validate_test", "should_validate")
    /\ graph' = Merged([graph EXCEPT
                           !.test_classes = StatusesAssigned(Get(graph, "test_classes", <<>>),
                                                             results, 1),
                           !.test_results = TestResults(Get(graph, "test_classes", <<>>),
                                                        results),
                           !.all_tests_passed = AllPassed(results),
                           !.last_action = "tests_validated"],
                       {"test_classes", "test_results", "all_tests_passed",
                        "last_action"})
    /\ validated' = IF AllPassed(results) THEN "passed_once"
                    ELSE IF validated = "never" THEN "always_failed"
                    ELSE validated

\* the first entry with this name (lines 118-121), 0 if there is none
FirstNamed(tests, name) ==
    IF \E i \in 1..Len(tests) : tests[i].name = name
    THEN CHOOSE i \in 1..Len(tests) :
            tests[i].name = name /\ \A j \in 1..(i - 1) : tests[j].name # name
    ELSE 0

RECURSIVE Fixed(_, _, _)
\* the loop of fix_test_node (lines 107-121) from class i of the state's list
\* on: the agent sets status "fixed" in the class's dict (fix_test.py lines
\* 37-39) and the node puts that dict at the first entry of the same name
Fixed(updated, test_classes, i) ==
    IF i > Len(test_classes) THEN updated
    ELSE IF test_classes[i].status \notin {"failed", "needs_fixes"}
    THEN Fixed(updated, test_classes, i + 1)
    ELSE LET fixed_test == [test_classes[i] EXCEPT !.status = "fixed"]
             written == StatusSet(updated, fixed_test.obj, "fixed")
             at == FirstNamed(written, fixed_test.name)
         IN  Fixed(IF at = 0 THEN written ELSE [written EXCEPT ![at] = fixed_test],
                   test_classes, i + 1)

\* fix_test_node (lines 104-127), edge at line 199
FixTest ==
    /\ Ran("fix_test", "validate_test")
    /\ graph' = Merged([graph EXCEPT
                           !.test_classes = Fixed(Get(graph, "test_classes", <<>>),
                                                  Get(graph, "test_classes", <<>>), 1),
                           !.retry_count = Get(graph, "retry_count", 0) + 1,
                           !.last_action = "tests_fixed"],
                       {"test_classes", "retry_count", "last_action"})
    /\ UNCHANGED validated

\* overall_status decided by the recorded test results alone
OverallStatusIgnoringTestRun(test_results, test_status) ==
    IF \E r \in test_results : ~r.success THEN "partial" ELSE "success"

\* overall_status of _perform_validation (project_validator.py lines 75-88)
OverallStatus(test_results, test_status) ==
    LET failed_tests == Cardinality({r \in test_results : ~r.success})
    IN  IF failed_tests = 0 /\ test_status = "success" THEN "success"
        ELSE IF failed_tests > 0 THEN "partial"
        ELSE "failed"

\* what the final maven test run makes of test_status
\* (project_validator.py lines 39, 60-73)
TestStatuses == {"success", "failed", "unknown", "error"}

\* project_validator_node (lines 129-131; project_validator.py lines 11-32),
\* edge at line 200
ProjectValidator(test_status) ==
    /\ Ran("project_validator", "END")
    /\ graph' = Merged([graph EXCEPT
                           !.build_status = OverallStatus(Get(graph, "test_results", {}),
                                                          test_status),
                           !.summary_report = "generated",
                           !.last_action = "project_validated"],
                       {"build_status", "summary_report", "last_action"})
    /\ UNCHANGED validated

\* end_failed_node (lines 157-162), edge at line 201
EndFailed ==
    /\ Ran("end_failed", "END")
    /\ graph' = Merged([graph EXCEPT
                           !.build_status = "failed",
                           !.summary_report = "Max retries reached. Test generation failed.",
                           !.last_action = "workflow_failed"],
                       {"build_status", "summary_report", "last_action"})
    /\ UNCHANGED validated

\* one step of a run: a stage, or the conditional edge after one
PipelineNext ==
    \/ \E found \in ProjectContents : AnalyzeProject(found)
    \/ ClassAnalysis
    \/ GenerateTest
    \/ \E verdicts \in [1..Len(Get(graph, "test_classes", <<>>)) -> ReviewStatuses] :
          ReviewTest(verdicts)
    \/ ShouldContinueReview
    \/ \E results \in [1..Len(Get(graph, "test_classes", <<>>)) -> ValidationStatuses] :
          ValidateTest(results)
    \/ ShouldValidate
    \/ FixTest
    \/ \E test_status \in TestStatuses : ProjectValidator(test_status)
    \/ EndFailed

SpecPipeline == PipelineInit /\ [][PipelineNext]_vars

\* --------------------------------------------------------------- state diff
\* the records diff_states reads: a class's fields and methods, keyed by name
FieldRec(name, type) == [name |-> name, type |-> type]
MethodRec(name, return_type) == [name |-> name, return_type |-> return_type]
DiffClass(name, fields, methods) ==
    [name |-> name, fields |-> fields, methods |-> methods]

\* state['build_status']: the MavenBuildState dict (states/project.py lines
\* 92-99), or the plain string the pipeline's final stages store there
\* (workflow.py line 159, project_validator.py line 28)
BuildDict(status) == [kind |-> "dict", build_status |-> status]
BuildString(status) == [kind |-> "str", build_status |-> status]

DiffState(classes, build) == [java_classes |-> classes, build_status |-> build]

\* the states diff_states is called on
DiffInputs ==
    LET id == FieldRec("id", "Long")
        idS == FieldRec("id", "String")
        nm == FieldRec("name", "String")
        get == MethodRec("get", "int")
        set == MethodRec("set", "void")
        ok == BuildDict("success")
    IN  {DiffState(<<>>, ok),
         DiffState(<<DiffClass("User", <<>>, <<>>)>>, ok),
         DiffState(<<DiffClass("User", <<id>>, <<>>)>>, ok),
         DiffState(<<DiffClass("User", <<idS>>, <<get>>)>>, ok),
         DiffState(<<DiffClass("User", <<id, nm>>, <<get, set>>)>>, ok),
         DiffState(<<DiffClass("User", <<>>, <<>>),
                     DiffClass("Order", <<id>>, <<>>)>>, ok),
         DiffState(<<DiffClass("Order", <<id, nm>>, <<get>>),
                     DiffClass("User", <<id, nm>>, <<get>>)>>, ok),
         DiffState(<<DiffClass("Account", <<id>>, <<>>),
                     DiffClass("Order", <<>>, <<>>)>>, ok),
         DiffState(<<DiffClass("User", <<>>, <<>>)>>, BuildDict("failed")),
         DiffState(<<DiffClass("User", <<>>, <<>>)>>, BuildString("failed"))}

\* the orders a process may iterate a set of these names in: set iteration
\* follows the strings' hashes, which differ from process to process
HashOrders ==
    {<<"Account", "Order", "User", "get", "id", "name", "set">>,
     <<"set", "name", "id", "get", "User", "Order", "Account">>}

\* set(d.keys()) of {x['name']: x for x in list} (lines 62-66, 99-103, 145-149)
Names(list) == {list[i].name : i \in 1..Len(list)}

\* {x['name']: x for x in list}[name]: the last record of that name
Keyed(list, name) ==
    list[CHOOSE i \in 1..Len(list) :
            list[i].name = name /\ \A j \in (i + 1)..Len(list) : list[j].name # name]

\* for name in <set>: the names in the order the process iterates them
Iterated(names, order) == SelectSeq(order, LAMBDA n : n \in names)

\* DiffChange (lines 9-17); old_value and new_value are the records Keyed
\* gives for the identifier in the two states
DiffChange(change_type, component, identifier) ==
    [change_type |-> change_type, component |-> component,
     identifier |-> identifier]

\* one loop appending a change per name (lines 68-79, 105-115, ...)
ChangesFor(change_type, component, prefix, names, order) ==
    [i \in 1..Len(Iterated(names, order)) |->
        DiffChange(change_type, component, prefix \o Iterated(names, order)[i])]

\* the three loops over one kind of member of a class in both states
\* (fields: lines 99-143, methods: lines 145-189)
MemberChanges(class_name, list1, list2, component, order) ==
    LET names1 == Names(list1)
        names2 == Names(list2)
        differing == {n \in names1 \cap names2 : Keyed(list1, n) # Keyed(list2, n)}
        prefix == class_name \o "."
    IN  ChangesFor("removed", component, prefix, names1 \ names2, order)
        \o ChangesFor("added", component, prefix, names2 \ names1, order)
        \o ChangesFor("modified", component, prefix, differing, order)

\* the body of the loop over the classes in both states (lines 95-189)
ClassChanges(class1, class2, order) ==
    IF class1 = class2 THEN <<>>
    ELSE MemberChanges(class1.name, class1.fields, class2.fields, "fields", order)
         \o MemberChanges(class1.name, class1.methods, class2.methods, "methods", order)

RECURSIVE CommonClassChanges(_, _, _, _)
\* for class_name in class_names1 & class_names2 (line 94)
CommonClassChanges(class_names, state1, state2, order) ==
    IF class_names = <<>> THEN <<>>
    ELSE ClassChanges(Keyed(state1.java_classes, Head(class_names)),
                      Keyed(state2.java_classes, Head(class_names)), order)
         \o CommonClassChanges(Tail(class_names), state1, state2, order)

\* the build-status comparison (lines 191-203)
BuildStatusChanges(state1, state2) ==
    IF state1.build_status.build_status # state2.build_status.build_status
    THEN <<DiffChange("modified", "build_status", "build_status.build_status")>>
    ELSE <<>>

\* changes as diff_states builds it (lines 52, 62-203)
Changes(state1, state2, order) ==
    LET names1 == Names(state1.java_classes)
        names2 == Names(state2.java_classes)
    IN  ChangesFor("removed", "java_classes", "", names1 \ names2, order)
        \o ChangesFor("added", "java_classes", "", names2 \ names1, order)
        \o CommonClassChanges(Iterated(names1 \cap names2, order), state1, state2, order)
        \o BuildStatusChanges(state1, state2)

\* how many changes have this value in this attribute
Counted(changes, attribute, value) ==
    Cardinality({i \in 1..Len(changes) : changes[i][attribute] = value})

\* summary as diff_states counts it along the way (lines 53-60, 78-79, ...)
Summary(changes) ==
    [added |-> Counted(changes, "change_type", "added"),
     removed |-> Counted(changes, "change_type", "removed"),
     modified |-> Counted(changes, "change_type", "modified"),
     classes_changed |-> Counted(changes, "component", "java_classes"),
     fields_changed |-> Counted(changes, "component", "fields"),
     methods_changed |-> Counted(changes, "component", "methods")]

\* a call that returns no report
Raised(exception) ==
    [raised |-> exception, changes |-> <<>>, summary |-> Summary(<<>>)]

\* whether utils/state_diff.py compiles: the dict literal of lines 53-60 has
\* no comma after "modified": 0 (line 56), so importing the module raises
\* SyntaxError and diff_states is never defined
StateDiffCompiles == FALSE

\* diff_states (lines 46-211) as a caller gets it: build_status1.get (line
\* 194) raises AttributeError on a build_status that is a string
diff_states(state1, state2, order) ==
    IF ~StateDiffCompiles THEN Raised("SyntaxError")
    ELSE IF state1.build_status.kind # "dict" \/ state2.build_status.kind # "dict"
    THEN Raised("AttributeError")
    ELSE [raised |-> "",
          changes |-> Changes(state1, state2, order),
          summary |-> Summary(Changes(state1, state2, order))]

\* a process imports utils.state_diff and calls diff_states, at most twice
\* (as state_persistence.py lines 101-102 and 127-128 do)
DiffStates(state1, state2) ==
    /\ diff_prev = NoDiffCall
    /\ diff_call' = [op |-> "diff_states", state1 |-> state1, state2 |-> state2,
                     report |-> diff_states(state1, state2, hash_order)]
    /\ diff_prev' = diff_call
    /\ UNCHANGED <<hash_order, verifyVars, threadVars, crashVars, lateVars, smVars, pipeVars>>

DiffInit ==
    /\ SMInit(0)
    /\ NoRun
    /\ hash_order \in HashOrders
    /\ diff_call = NoDiffCall
    /\ diff_prev = NoDiffCall
    /\ VerifyIdle
    /\ NoThreads
    /\ NotCrashed
    /\ LateIdle

DiffNext == \E state1 \in DiffInputs, state2 \in DiffInputs : DiffStates(state1, state2)

SpecDiff == DiffInit /\ [][DiffNext]_vars

\* ------------------------------------------------ consistency verification
\* (StateManager.verify_state_consistency, state_manager.py lines 249-283)

\* set_state calls per behaviour of the verification specification
VerifyMaxCalls == 2
\* the latest modification time, in seconds, a file reaches
VerifyMaxMtime == 3

\* abs(current_mtime - expected_mtime) > 1
MtimeTolerance == 1

ProjectDir == "/p"
ClassFiles == {"/p/A.java", "/p/B.java"}

\* a JavaClassState with the timestamp analysis recorded for its file;
\* 0 stands for no timestamp (None or absent: both falsy at line 276)
VerifyClass(name, path, last_modified) ==
    [keys |-> ClassKeys \cup {"last_modified"}, name |-> name,
     file_path |-> path, status |-> "analyzed", last_modified |-> last_modified]

\* a complete project state with its project_path
VerifyState(project_path, classes) ==
    [kind |-> "dict", keys |-> TopKeys, project_name |-> "A",
     messages |-> <<>>, java_classes |-> classes, project_path |-> project_path]

\* the states whose consistency is verified
VerifyInputs ==
    LET a0 == VerifyClass("A", "/p/A.java", 0)
        a1 == VerifyClass("A", "/p/A.java", 1)
        b1 == VerifyClass("B", "/p/B.java", 1)
    IN  {VerifyState(ProjectDir, <<>>),
         VerifyState(ProjectDir, <<a0>>),
         VerifyState(ProjectDir, <<a1>>),
         VerifyState(ProjectDir, <<a1, b1>>),
         VerifyState("", <<a1>>),
         VerifyState("", <<>>)}

\* the project on disk when the state is built: every file written at time 1
FilesWritten == [dir |-> TRUE, files |-> [f \in ClassFiles |-> 1]]

\* Path(file_path).exists(); a missing file has mtime 0 in the model
Exists(files, path) == path \in DOMAIN files /\ files[path] # 0

Issue(kind, path) == [kind |-> kind, path |-> path]

\* expected_mtime and abs(current_mtime - expected_mtime) > 1
Drifted(current_mtime, expected_mtime) ==
    /\ expected_mtime # 0
    /\ (IF current_mtime > expected_mtime THEN current_mtime - expected_mtime
        ELSE expected_mtime - current_mtime) > MtimeTolerance

\* issues that also hold the files whose mtime drifted
FileIssuesWithDrift(classes, files) ==
    LET bad == SelectSeq(classes, LAMBDA c :
                   c.file_path # ""
                   /\ (~Exists(files, c.file_path)
                       \/ Drifted(files[c.file_path], c.last_modified)))
    IN  [i \in 1..Len(bad) |-> Issue("file_not_found", bad[i].file_path)]

\* issues of the loop over java_classes (lines 268-272)
FileIssues(classes, files) ==
    LET missing == SelectSeq(classes, LAMBDA c :
                       c.file_path # "" /\ ~Exists(files, c.file_path))
    IN  [i \in 1..Len(missing) |-> Issue("file_not_found", missing[i].file_path)]

\* warnings of the loop over java_classes (lines 273-277)
FileWarnings(classes, files) ==
    LET drifted == SelectSeq(classes, LAMBDA c :
                       /\ c.file_path # ""
                       /\ Exists(files, c.file_path)
                       /\ Drifted(files[c.file_path], c.last_modified))
    IN  [i \in 1..Len(drifted) |-> Issue("modified_since_cached", drifted[i].file_path)]

\* the two early returns with an error (lines 253, 260)
ErrorReport(error) ==
    [keys |-> {"consistent", "error"}, consistent |-> FALSE,
     issues |-> <<>>, warnings |-> <<>>, error |-> error]

\* the returns with issues and warnings (lines 265, 279-283)
ConsistencyReport(consistent, issues, warnings) ==
    [keys |-> {"consistent", "issues", "warnings"}, consistent |-> consistent,
     issues |-> issues, warnings |-> warnings, error |-> ""]

\* verify_state_consistency's return value
verify_state_consistency(cur, disk) ==
    IF ~Truthy(cur) THEN ErrorReport("No state loaded")
    ELSE IF cur.project_path = "" THEN ErrorReport("No project path in state")
    ELSE IF ~disk.dir
    THEN ConsistencyReport(FALSE, <<Issue("project_dir_missing", cur.project_path)>>, <<>>)
    ELSE ConsistencyReport(FileIssues(cur.java_classes, disk.files) = <<>>,
                           FileIssues(cur.java_classes, disk.files),
                           FileWarnings(cur.java_classes, disk.files))

\* the call: it reads the live state and the disk and changes neither
VerifyStateConsistency ==
    /\ ewr.pc = "idle"
    /\ last.op # "verify_state_consistency"
    /\ verify_call' = [op |-> "verify_state_consistency",
                       state |-> current_state, disk |-> fs,
                       snapshots |-> snapshots, transactions |-> transactions,
                       report |-> verify_state_consistency(current_state, fs)]
    /\ last' = Call("verify_state_consistency", None, 0, "", "none")
    /\ UNCHANGED <<current_state, liveShared, snapshots, transactions, txObj,
                   callerObj, ewr, scen, budget>>
    /\ UNCHANGED <<fs, diffVars, threadVars, crashVars, lateVars, pipeVars>>

\* a class file is deleted from disk
DeleteFile(path) ==
    /\ Exists(fs.files, path)
    /\ fs' = [fs EXCEPT !.files[path] = 0]
    /\ UNCHANGED <<verify_call, diffVars, threadVars, crashVars, lateVars, smVars, pipeVars>>

\* a class file is rewritten a second later
TouchFile(path) ==
    /\ Exists(fs.files, path)
    /\ fs.files[path] < VerifyMaxMtime
    /\ fs' = [fs EXCEPT !.files[path] = @ + 1]
    /\ UNCHANGED <<verify_call, diffVars, threadVars, crashVars, lateVars, smVars, pipeVars>>

\* the project directory is removed with everything in it
RemoveProjectDir ==
    /\ fs.dir
    /\ fs' = [dir |-> FALSE, files |-> [f \in ClassFiles |-> 0]]
    /\ UNCHANGED <<verify_call, diffVars, threadVars, crashVars, lateVars, smVars, pipeVars>>

VerifyInit ==
    /\ SMInit(VerifyMaxCalls)
    /\ NoRun
    /\ DiffIdle
    /\ fs = FilesWritten
    /\ verify_call = NoVerifyCall
    /\ NoThreads
    /\ NotCrashed
    /\ LateIdle

VerifyNext ==
    \/ \E state \in VerifyInputs : SetState(state)
    \/ VerifyStateConsistency
    \/ \E path \in ClassFiles : DeleteFile(path)
    \/ \E path \in ClassFiles : TouchFile(path)
    \/ RemoveProjectDir

SpecVerify == VerifyInit /\ [][VerifyNext]_vars

\* ------------------------------------------------- threads on one manager
\* Every public method takes self._lock (an RLock) for its own duration
\* (lines 65, 70, 128, 140, 148); execute_with_rollback (lines 206-226) and a
\* caller's get_state / set_state pair take it call by call. One step of a
\* thread is therefore one method call, and steps interleave.

\* set_state and begin_transaction calls per behaviour of the threads
\* specification
ThreadMaxCalls == 5

Threads == {1, 2}

NotStarted == [pc |-> "idle", tx |-> 0, local |-> None, exc |-> "", committed |-> None]

\* the state the main thread loads before it starts the two threads
ThreadBase == ProjectState(TopKeys, "A", <<>>, <<>>)

\* the update thread t makes: it writes its own project name
UpdateOf(state, t) == [state EXCEPT !.project_name = IF t = 1 THEN "T1" ELSE "T2"]

\* a thread between the first and the last call of its sequence
Mid(t) == threads[t].pc \notin {"idle", "done"}

\* the main thread: set_state(state) before any thread runs
ThreadLoad ==
    /\ current_state = None
    /\ SetState(ThreadBase)

\* get -> mutate -> set, first call: local = manager.get_state()
ThreadGet(t) ==
    /\ Truthy(current_state)
    /\ threads[t].pc = "idle"
    /\ threads' = [threads EXCEPT ![t].pc = "read", ![t].local = CopyOut(current_state)]
    /\ last' = Call("get_state", None, 0, "", "none")
    /\ UNCHANGED <<current_state, liveShared, snapshots, transactions, txObj,
                   callerObj, ewr, scen, budget>>
    /\ UNCHANGED <<diffVars, verifyVars, crashVars, lateVars, pipeVars>>

\* get -> mutate -> set, last call: manager.set_state(mutated local)
ThreadSet(t) ==
    /\ threads[t].pc = "read"
    /\ set_state(UpdateOf(threads[t].local, t))
    /\ threads' = [threads EXCEPT ![t].pc = "done",
                                  ![t].committed = UpdateOf(threads[t].local, t)]
    /\ liveShared' = FALSE
    /\ last' = SetStateCall(UpdateOf(threads[t].local, t))
    /\ UNCHANGED <<transactions, txObj, callerObj, ewr, scen>>
    /\ UNCHANGED <<diffVars, verifyVars, crashVars, lateVars, pipeVars>>

\* execute_with_rollback: transaction = self.begin_transaction(operation)
ThreadBegin(t) ==
    /\ Truthy(current_state)
    /\ threads[t].pc = "idle"
    /\ begin_transaction("ewr")
    /\ threads' = [threads EXCEPT ![t].pc = "func", ![t].tx = Len(txObj) + 1]
    /\ last' = Call("begin_transaction", None, Len(txObj) + 1, "", "none")
    /\ UNCHANGED <<current_state, liveShared, transactions, callerObj, ewr, scen>>
    /\ UNCHANGED <<diffVars, verifyVars, crashVars, lateVars, pipeVars>>

\* execute_with_rollback: func() calls set_state with the thread's update
ThreadFuncSetState(t) ==
    /\ threads[t].pc = "func"
    /\ set_state(UpdateOf(ThreadBase, t))
    /\ threads' = [threads EXCEPT ![t].pc = "set", ![t].local = UpdateOf(ThreadBase, t)]
    /\ liveShared' = FALSE
    /\ last' = SetStateCall(UpdateOf(ThreadBase, t))
    /\ UNCHANGED <<transactions, txObj, callerObj, ewr, scen>>
    /\ UNCHANGED <<diffVars, verifyVars, crashVars, lateVars, pipeVars>>

\* execute_with_rollback: func() raises
ThreadFuncRaise(t, e) ==
    /\ threads[t].pc \in {"func", "set"}
    /\ threads' = [threads EXCEPT ![t].pc = "except", ![t].exc = e]
    /\ last' = Call("func", None, 0, e, "none")
    /\ UNCHANGED <<current_state, liveShared, snapshots, transactions, txObj,
                   callerObj, ewr, scen, budget>>
    /\ UNCHANGED <<diffVars, verifyVars, crashVars, lateVars, pipeVars>>

\* execute_with_rollback: func() returned, self.commit_transaction(transaction)
ThreadReturn(t) ==
    /\ threads[t].pc = "set"
    /\ commit_transaction(threads[t].tx)
    /\ threads' = [threads EXCEPT ![t].pc = "done", ![t].committed = threads[t].local]
    /\ last' = Call("commit_transaction", None, threads[t].tx, "", "none")
    /\ UNCHANGED <<current_state, liveShared, callerObj, ewr, scen, budget>>
    /\ UNCHANGED <<diffVars, verifyVars, crashVars, lateVars, pipeVars>>

\* execute_with_rollback: self.rollback_transaction(transaction, str(e)); raise e
ThreadExcept(t) ==
    /\ threads[t].pc = "except"
    /\ rollback_transaction(threads[t].tx, threads[t].exc)
    /\ threads' = [threads EXCEPT ![t].pc = "done"]
    /\ last' = Call("rollback_transaction", None, threads[t].tx, threads[t].exc, "none")
    /\ UNCHANGED <<callerObj, ewr, scen, budget>>
    /\ UNCHANGED <<diffVars, verifyVars, crashVars, lateVars, pipeVars>>

ThreadsInit ==
    /\ SMInit(ThreadMaxCalls)
    /\ NoRun
    /\ DiffIdle
    /\ VerifyIdle
    /\ threads = [t \in Threads |-> NotStarted]
    /\ NotCrashed
    /\ LateIdle

ThreadsNext ==
    \/ ThreadLoad
    \/ \E t \in Threads :
          \/ ThreadGet(t)
          \/ ThreadSet(t)
          \/ ThreadBegin(t)
          \/ ThreadFuncSetState(t)
          \/ \E e \in Exceptions : ThreadFuncRaise(t, e)
          \/ ThreadReturn(t)
          \/ ThreadExcept(t)

SpecThreads == ThreadsInit /\ [][ThreadsNext]_vars

\* ------------------------------------------------- a stage that raises
\* No node of graphs/workflow.py has a try/except: an exception raised by
\* agent.process leaves the node and the run. The agents that call the LLM
\* without catching are generate_test (generate_test.py line 88), review_test
\* (review_test.py line 73) and fix_test (fix_test.py line 93).

\* the largest max_retries the runs of this specification start with
CrashMaxRetries == 1

\* the project of these runs: two classes with content
CrashContents == {<<AnalyzedClass("Foo"), AnalyzedClass("Bar")>>}

RECURSIVE StatusesAssignedUpTo(_, _, _, _)
\* the per-class loop of review_test_node left at class upto: the classes
\* before it have had their status written into their dicts
StatusesAssignedUpTo(tests, statuses, i, upto) ==
    IF i >= upto THEN tests
    ELSE StatusesAssignedUpTo(StatusSet(tests, tests[i].obj, statuses[i]),
                              statuses, i + 1, upto)

RECURSIVE FixedUpTo(_, _, _)
\* the loop of fix_test_node left at class upto: the failed classes before it
\* have had status "fixed" written into their dicts (fix_test.py lines 37-39);
\* the node's own list updated_test_classes is lost with the exception
FixedUpTo(tests, i, upto) ==
    IF i >= upto THEN tests
    ELSE FixedUpTo(IF tests[i].status \in {"failed", "needs_fixes"}
                   THEN StatusSet(tests, tests[i].obj, "fixed")
                   ELSE tests,
                   i + 1, upto)

\* the exception leaves the node: no update is returned, no edge is followed
Raises(stage) ==
    /\ node = stage
    /\ node' = "raised"
    /\ crash' = [stage |-> stage, state |-> graph]
    /\ UNCHANGED <<max_retries_arg, executed, route, validated>>
    /\ UNCHANGED <<smVars, diffVars, verifyVars, threadVars, lateVars>>

\* generate_test_node (lines 53-58): the agent raises for a class with
\* content; the list built so far is local to the node
GenerateTestRaises ==
    /\ \E i \in 1..Len(Get(graph, "java_classes", <<>>)) : graph.java_classes[i].has_content
    /\ Raises("generate_test")
    /\ graph' = graph

\* review_test_node (lines 66-70): the agent raises at class k
ReviewTestRaises(verdicts, k) ==
    /\ k \in 1..Len(Get(graph, "test_classes", <<>>))
    /\ Raises("review_test")
    /\ graph' = [graph EXCEPT
                    !.test_classes = StatusesAssignedUpTo(graph.test_classes, verdicts, 1, k)]

\* fix_test_node (lines 111-114): the agent raises at failed class k
FixTestRaises(k) ==
    /\ k \in 1..Len(Get(graph, "test_classes", <<>>))
    /\ graph.test_classes[k].status \in {"failed", "needs_fixes"}
    /\ Raises("fix_test")
    /\ graph' = [graph EXCEPT !.test_classes = FixedUpTo(graph.test_classes, 1, k)]

\* runs started as main.py starts them (lines 32-71), with a small max_retries
CrashInit ==
    /\ SMInit(0)
    /\ UtilIdle
    /\ node = "analyze_project"
    /\ graph \in {GraphState({"java_classes", "test_classes", "retry_count",
                              "all_tests_passed", "max_retries"},
                             <<>>, <<>>, 0, mr, FALSE) : mr \in 0..CrashMaxRetries}
    /\ max_retries_arg = DefaultMaxRetries
    /\ executed = NotExecuted
    /\ route = NoRoute
    /\ validated = "never"

CrashNext ==
    \/ \E found \in CrashContents : AnalyzeProject(found)
    \/ ClassAnalysis
    \/ GenerateTest
    \/ GenerateTestRaises
    \/ \E verdicts \in [1..Len(Get(graph, "test_classes", <<>>)) -> ReviewStatuses] :
          ReviewTest(verdicts)
    \/ \E verdicts \in [1..Len(Get(graph, "test_classes", <<>>)) -> ReviewStatuses] :
          \E k \in 1..Len(verdicts) : ReviewTestRaises(verdicts, k)
    \/ ShouldContinueReview
    \/ \E results \in [1..Len(Get(graph, "test_classes", <<>>)) -> ValidationStatuses] :
          ValidateTest(results)
    \/ ShouldValidate
    \/ FixTest
    \/ \E k \in 1..Len(Get(graph, "test_classes", <<>>)) : FixTestRaises(k)
    \/ \E test_status \in TestStatuses : ProjectValidator(test_status)
    \/ EndFailed

SpecCrash == CrashInit /\ [][CrashNext]_vars

\* ------------------------------------------- one attempt that is rolled back
\* begin_transaction, set_state calls and rollback_transaction (lines 126-156)
\* on a manager that holds zero to MaxSnapshots + 1 earlier snapshots

\* set_state calls before the attempt begins
AttemptMaxLoads == 11
\* set_state calls between begin_transaction and rollback_transaction
AttemptMaxSets == 2

\* the states set during the attempt
AttemptStates == {UpdateOf(ThreadBase, 1), UpdateOf(ThreadBase, 2)}

\* the manager's live state, ring and history
Manager == [live |-> current_state, ring |-> snapshots, hist |-> transactions]

\* set_state(state) before the attempt
AttemptLoad ==
    /\ attempt.stage = "none"
    /\ Len(snapshots) < AttemptMaxLoads
    /\ budget > AttemptMaxSets + 1
    /\ SetState(ThreadBase)

\* tx = begin_transaction(label)
AttemptBegin ==
    /\ attempt.stage = "none"
    /\ begin_transaction("tx")
    /\ attempt' = [stage |-> "begun", tx |-> Len(txObj) + 1, sets |-> 0,
                   at_begin |-> Manager, at_rollback |-> Manager]
    /\ last' = Call("begin_transaction", None, Len(txObj) + 1, "", "none")
    /\ UNCHANGED <<current_state, liveShared, transactions, callerObj, ewr, scen>>
    /\ UNCHANGED <<diffVars, verifyVars, threadVars, crashVars, cacheVars, analysisVars, pipeVars>>

\* set_state(state) inside the attempt
AttemptSetState(state) ==
    /\ attempt.stage = "begun"
    /\ attempt.sets < AttemptMaxSets
    /\ set_state(state)
    /\ attempt' = [attempt EXCEPT !.sets = @ + 1]
    /\ liveShared' = FALSE
    /\ last' = SetStateCall(state)
    /\ UNCHANGED <<transactions, txObj, callerObj, ewr, scen>>
    /\ UNCHANGED <<diffVars, verifyVars, threadVars, crashVars, cacheVars, analysisVars, pipeVars>>

\* rollback_transaction(tx, reason)
AttemptRollback ==
    /\ attempt.stage = "begun"
    /\ rollback_transaction(attempt.tx, "reason")
    /\ attempt' = [attempt EXCEPT !.stage = "rolled", !.at_rollback = Manager]
    /\ last' = Call("rollback_transaction", None, attempt.tx, "", "none")
    /\ UNCHANGED <<callerObj, ewr, scen, budget>>
    /\ UNCHANGED <<diffVars, verifyVars, threadVars, crashVars, cacheVars, analysisVars, pipeVars>>

\* a fresh manager (__init__, lines 56-61)
AttemptInit ==
    /\ SMInit(AttemptMaxLoads + AttemptMaxSets + 1)
    /\ NoRun
    /\ UtilIdle

AttemptNext ==
    \/ AttemptLoad
    \/ AttemptBegin
    \/ \E state \in AttemptStates : AttemptSetState(state)
    \/ AttemptRollback

SpecAttempt == AttemptInit /\ [][AttemptNext]_vars

\* --------------------------------------------- a long run of transactions
\* set_state, begin_transaction, commit_transaction and rollback_transaction
\* (lines 68-73 and 126-156), one transaction at a time, past the capacity of
\* the snapshot ring and past the default limit of get_transaction_history

\* calls made to the manager
LedgerMaxCalls == 25
\* transactions rolled back
LedgerMaxRollbacks == 1

\* handles begun and neither committed nor rolled back
LedgerOpen ==
    {t \in 1..Len(txObj) : \A i \in 1..Len(transactions) : transactions[i] # t}

\* handles rolled back
LedgerRolledBack ==
    {t \in 1..Len(txObj) : txObj[t].error # ""}

\* get_snapshot() (lines 186-194): a deep copy of the last snapshot of the
\* ring, None when the ring is empty
get_snapshot ==
    IF snapshots = <<>> THEN NoSnapshot ELSE snapshots[Len(snapshots)]

\* set_state(state) on a manager that holds no state yet
LedgerLoad ==
    /\ current_state = None
    /\ SetState(ThreadBase)

\* set_state(state) inside the open transaction
LedgerUpdate ==
    /\ LedgerOpen # {}
    /\ current_state = ThreadBase
    /\ SetState(UpdateOf(ThreadBase, 1))

\* a fresh manager (__init__, lines 56-61)
LedgerInit == SMInit(LedgerMaxCalls) /\ NoRun /\ UtilIdle

LedgerNext ==
    \/ LedgerLoad
    \/ LedgerUpdate
    \/ (LedgerOpen = {} /\ BeginTransaction("tx"))
    \/ \E t \in LedgerOpen : CommitTransaction(t)
    \/ \E t \in LedgerOpen :
          /\ Cardinality(LedgerRolledBack) < LedgerMaxRollbacks
          /\ RollbackTransaction(t, "reason")

SpecLedger == LedgerInit /\ [][LedgerNext]_vars

\* ------------------------------------------------- the two analysis stages
\* analyze_project_node, class_analysis_node and generate_test_node
\* (workflow.py lines 26-60), with what the class analysis agent returns for
\* each class

\* what analyze_project finds in the project directory
AnalysisContents == ProjectContents \cup CrashContents

\* ClassAnalysisAgent.process (class_analysis.py lines 11-30) for one class:
\* both class records hold a file_path, so the metadata is extracted from the
\* file, and its status is "analyzed", or "error" when the file cannot be
\* read or parsed (lines 32-100)
ClassAnalysisStatus(java_class, extracted) ==
    IF extracted THEN "analyzed" ELSE "error"

\* class_analysis_node (lines 30-43), edge at line 177: the agent runs for
\* every class of java_classes; the node returns none of its results
ClassAnalysisCollects(extracted) ==
    /\ node = "class_analysis"
    /\ executed' = [executed EXCEPT !["class_analysis"] = @ + 1]
    /\ node' = "generate_test"
    /\ analysis_results' = [i \in 1..Len(Get(graph, "java_classes", <<>>)) |->
                      ClassAnalysisStatus(graph.java_classes[i], extracted[i])]
    /\ graph' = Merged([graph EXCEPT !.last_action =
                           IF Get(graph, "java_classes", <<>>) = <<>>
                           THEN "class_analysis_skipped"
                           ELSE "class_analysis_completed"],
                       {"last_action"})
    /\ UNCHANGED <<max_retries_arg, route, validated>>
    /\ UNCHANGED <<smVars, diffVars, verifyVars, threadVars, crashVars,
                   attemptVars, cacheVars>>

AnalysisNext ==
    \/ \E found \in AnalysisContents : AnalyzeProject(found)
    \/ \E extracted \in [1..Len(Get(graph, "java_classes", <<>>)) -> BOOLEAN] :
          ClassAnalysisCollects(extracted)
    \/ GenerateTest

SpecAnalysis == PipelineInit /\ [][AnalysisNext]_vars

\* -------------------------------------------------------------- the cache
\* CacheManager (utils/caching.py lines 22-111) without a TTL: the keys of
\* _cache, the list _access_order and _max_size

\* bound: the largest max_size a cache is created with
CacheMaxSize == 2
\* bound: the longest _access_order a put is made on
CacheMaxOrder == 4

CacheKeys == {"a", "b", "c"}

RECURSIVE RemoveFirst(_, _)
\* list.remove(key): the list without the first occurrence of key
RemoveFirst(order, key) ==
    IF order = <<>> THEN <<>>
    ELSE IF Head(order) = key THEN Tail(order)
    ELSE <<Head(order)>> \o RemoveFirst(Tail(order), key)

\* _remove (lines 94-99)
CacheRemove(c, key) ==
    [c EXCEPT !.keys = @ \ {key}, !.access_order = RemoveFirst(@, key)]

\* _evict_lru (lines 101-105)
EvictLru(c) ==
    IF c.access_order # <<>> THEN CacheRemove(c, c.access_order[1]) ELSE c

\* _update_access_order (lines 107-111)
UpdateAccessOrder(c, key) ==
    [c EXCEPT !.access_order = Append(RemoveFirst(@, key), key)]

\* the cache when put looks for room (lines 74-75)
RoomMade(c) ==
    IF Cardinality(c.keys) >= c.max_size THEN EvictLru(c) ELSE c

\* put (lines 66-78)
PutInto(c, key) ==
    [RoomMade(c) EXCEPT !.keys = @ \cup {key}, !.access_order = Append(@, key)]

\* the cached keys from the least to the most recently used, after key was
\* put or read
Used(order, key) == Append(RemoveFirst(order, key), key)

\* the cached keys in order of use once the keys gone are left out
StillCached(order, keys) == SelectSeq(order, LAMBDA k : k \in keys)

CacheFrame ==
    UNCHANGED <<smVars, pipeVars, diffVars, verifyVars, threadVars, crashVars,
                attemptVars, analysisVars>>

\* cache.put(key, value)
CachePut(key) ==
    /\ cache.max_size > 0
    /\ Len(cache.access_order) < CacheMaxOrder
    /\ cache' = PutInto(cache, key)
    /\ recent' = Used(StillCached(recent, RoomMade(cache).keys), key)
    /\ cache_call' = [op |-> "put", key |-> key,
                      evicted |-> cache.keys \ RoomMade(cache).keys,
                      lru |-> IF recent = <<>> THEN {} ELSE {recent[1]}]
    /\ CacheFrame

\* cache.get(key): a hit moves the key to the end of _access_order
CacheGet(key) ==
    /\ cache.max_size > 0
    /\ cache' = IF key \in cache.keys THEN UpdateAccessOrder(cache, key) ELSE cache
    /\ recent' = IF key \in cache.keys THEN Used(recent, key) ELSE recent
    /\ cache_call' = [op |-> "get", key |-> key, evicted |-> {}, lru |-> {}]
    /\ CacheFrame

\* cache.invalidate(key) (lines 80-87)
CacheInvalidate(key) ==
    /\ cache.max_size > 0
    /\ cache' = CacheRemove(cache, key)
    /\ recent' = StillCached(recent, cache.keys \ {key})
    /\ cache_call' = [op |-> "invalidate", key |-> key, evicted |-> {}, lru |-> {}]
    /\ CacheFrame

\* cache.clear() (lines 89-92)
CacheClear ==
    /\ cache.max_size > 0
    /\ cache' = [cache EXCEPT !.keys = {}, !.access_order = <<>>]
    /\ recent' = <<>>
    /\ cache_call' = [op |-> "clear", key |-> "", evicted |-> {}, lru |-> {}]
    /\ CacheFrame

\* CacheManager(max_size=m) (lines 27-37)
CacheInit ==
    /\ SMInit(0)
    /\ NoRun
    /\ DiffIdle /\ VerifyIdle /\ NoThreads /\ NotCrashed
    /\ attempt = NoAttempt
    /\ analysis_results = <<>>
    /\ cache \in {[keys |-> {}, access_order |-> <<>>, max_size |-> m] :
                     m \in 1..CacheMaxSize}
    /\ recent = <<>>
    /\ cache_call = NoCacheCall

CacheNext ==
    \/ \E key \in CacheKeys : CachePut(key)
    \/ \E key \in CacheKeys : CacheGet(key)
    \/ \E key \in CacheKeys : CacheInvalidate(key)
    \/ CacheClear

SpecCache == CacheInit /\ [][CacheNext]_vars

\* ------------------------------------------------------------------ claims

\* C1: after set_state(S0), tx = begin_transaction, set_state(S1),
\* rollback_transaction(tx), get_state() returns a state equal to S0.
C1_RollbackRestoresExactly ==
    scen.stage = "rolled" => CopyOut(current_state) = scen.s0

\* C2: when the function run by execute_with_rollback raises E, the call
\* re-raises E, get_state() returns what it returned before the call, and the
\* call's transaction is recorded once, with success = FALSE.
C2_FailedCallRestoresAndRecords ==
    (last.op = "execute_with_rollback" /\ last.raised # "") =>
        /\ last.raised = ewr.exc
        /\ CopyOut(current_state) = ewr.pre
        /\ ~txObj[ewr.tx].success
        /\ Cardinality({i \in DOMAIN transactions : transactions[i] = ewr.tx}) = 1

\* C6: set_state(s) followed by get_state() returns a state deeply equal to s.
C6_SetGetRoundTrip ==
    (last.op = "set_state" /\ last.raised = "") =>
        CopyOut(current_state) = last.arg

C6_Witness ==
    /\ last.op = "set_state"
    /\ last.raised = ""
    /\ last.arg.messages = <<BaseMsg>>
    /\ Len(last.arg.java_classes) = 1

\* C7: a caller mutating the object it passed to set_state or got from
\* get_state changes neither the live state nor any snapshot or transaction.
C7_CallerMutationStaysPrivate ==
    [][ last'.op = "caller_mutate" =>
            /\ current_state' = current_state
            /\ snapshots' = snapshots
            /\ transactions' = transactions
            /\ txObj' = txObj ]_vars

C7_Witness ==
    /\ last.op = "caller_mutate"
    /\ Truthy(current_state)
    /\ callerObj.project_name = "X"
    /\ current_state.project_name # "X"
    /\ Len(snapshots) > 0

\* C8: a set_state call that fails validation leaves the live state, the
\* snapshot ring and the transaction history as they were.
C8_FailedSetStateChangesNothing ==
    [][ (last'.op = "set_state" /\ last'.raised = "ValidationError") =>
            /\ current_state' = current_state
            /\ snapshots' = snapshots
            /\ transactions' = transactions
            /\ txObj' = txObj ]_vars

C8_Witness ==
    /\ last.op = "set_state"
    /\ last.raised = "ValidationError"
    /\ Truthy(current_state)
    /\ Len(snapshots) > 0
    /\ Len(transactions) > 0

\* C9: set_state raises ValidationError for a state that lacks a required
\* top-level field, holds a class record lacking a required field, or holds an
\* analyzed class with an empty file_path; and no analyzed class of the live
\* state ever has an empty file_path.
C9_AnalyzedClassHasFilePath ==
    /\ (last.op = "set_state" /\
        last.defect \in {"missing_top_level_field", "class_missing_field",
                         "analyzed_without_file_path"})
           => last.raised = "ValidationError"
    /\ \A i \in 1..Len(current_state.java_classes) :
          ("status" \in current_state.java_classes[i].keys /\
           current_state.java_classes[i].status = "analyzed")
             => current_state.java_classes[i].file_path # ""

C9_Witness ==
    /\ last.op = "set_state"
    /\ last.defect = "analyzed_without_file_path"
    /\ Len(current_state.java_classes) = 1
    /\ current_state.java_classes[1].status = "analyzed"

\* C5 (as claimed): after N begin/commit pairs and no rollback or clear,
\* get_transaction_history() has exactly N entries, each with success = TRUE
\* and an after snapshot.
C5_HistoryHasNEntries ==
    OpenHandles = {} =>
        LET H == get_transaction_history(DefaultHistoryLimit)
        IN  /\ Len(H) = Len(txObj)
            /\ \A i \in 1..Len(H) :
                  H[i].success /\ H[i].after_snapshot # NoSnapshot

\* C5 (amended): after N begin/commit pairs and no rollback or clear,
\* get_transaction_history() has exactly min(N, 10) entries, the most recent
\* ones, each with success = TRUE and an after snapshot.
C5_HistoryHasLastTenEntries ==
    OpenHandles = {} =>
        LET H == get_transaction_history(DefaultHistoryLimit)
            N == Len(txObj)
            k == IF N < DefaultHistoryLimit THEN N ELSE DefaultHistoryLimit
        IN  /\ Len(H) = k
            /\ \A i \in 1..Len(H) :
                  /\ H[i].success
                  /\ H[i].after_snapshot # NoSnapshot
                  /\ H[i] = txObj[transactions[N - k + i]]

C5_Witness ==
    /\ OpenHandles = {}
    /\ Len(txObj) = DefaultHistoryLimit + 1
    /\ Truthy(current_state)
    /\ last.op = "commit_transaction"

\* C3: a run created with max_retries = k and started with retry_count = 0,
\* whose validate stage reports failure every time, executes fix_test exactly
\* k times and then end_failed.
C3_FixTestRunsMaxRetriesTimes ==
    (node = "END" /\ validated = "always_failed") =>
        /\ executed["fix_test"] = max_retries_arg
        /\ executed["end_failed"] = 1

\* C4: the only cycle of a run is fix_test -> validate_test: generate_test and
\* review_test are never executed a second time in one run.
C4_GenerateAndReviewRunOnce ==
    node # "none" =>
        /\ executed["generate_test"] <= 1
        /\ executed["review_test"] <= 1

\* C10: should_validate returns project_validator if all_tests_passed is
\* true; otherwise fix_test if retry_count < max_retries; otherwise
\* end_failed; a field the state lacks counts as True, 0 and 3 respectively.
C10_ShouldValidateChoosesByRetries ==
    route.fn = "should_validate" =>
        LET passed == IF "all_tests_passed" \in graph.keys
                      THEN graph.all_tests_passed ELSE TRUE
            count == IF "retry_count" \in graph.keys THEN graph.retry_count ELSE 0
            limit == IF "max_retries" \in graph.keys THEN graph.max_retries ELSE 3
        IN  /\ passed => route.result = "project_validator"
            /\ (~passed /\ count < limit) => route.result = "fix_test"
            /\ (~passed /\ count >= limit) => route.result = "end_failed"

C10_Witness ==
    /\ route.fn = "should_validate"
    /\ route.result = "end_failed"
    /\ {"all_tests_passed", "retry_count", "max_retries"} \subseteq graph.keys
    /\ graph.retry_count = graph.max_retries
    /\ graph.retry_count > 0

C12_EndFailedOnlyWhenExhausted ==
    /\ node = "end_failed" =>
          /\ "all_tests_passed" \in graph.keys /\ ~graph.all_tests_passed
          /\ graph.retry_count >=
                (IF "max_retries" \in graph.keys THEN graph.max_retries ELSE 3)
    /\ (node = "END" /\ executed["end_failed"] > 0) =>
          /\ executed["end_failed"] = 1
          /\ executed["project_validator"] = 0
          /\ graph.build_status = "failed"
          /\ graph.summary_report = "Max retries reached. Test generation failed."

C12_Witness ==
    /\ node = "END"
    /\ executed["end_failed"] = 1
    /\ executed["fix_test"] = 2
    /\ "max_retries" \in graph.keys
    /\ graph.max_retries = 2
    /\ graph.build_status = "failed"

C14_DiffOfAStateWithItselfIsEmpty ==
    (diff_call.op = "diff_states" /\ diff_call.state1 = diff_call.state2) =>
        /\ diff_call.report.raised = ""
        /\ diff_call.report.changes = <<>>
        /\ \A k \in DOMAIN diff_call.report.summary : diff_call.report.summary[k] = 0

\* C15: diff_states(S0, S1) and diff_states(S1, S0) report the same
\* (component, identifier) pairs, every added in one being removed in the
\* other and every modified being modified in both.
C15_DiffIsSymmetric ==
    (diff_call.op = "diff_states" /\ diff_prev.op = "diff_states"
     /\ diff_call.state1 = diff_prev.state2 /\ diff_call.state2 = diff_prev.state1) =>
        LET there == diff_prev.report.changes
            back == diff_call.report.changes
            Swapped(t) == IF t = "added" THEN "removed"
                          ELSE IF t = "removed" THEN "added" ELSE t
        IN  /\ diff_prev.report.raised = ""
            /\ diff_call.report.raised = ""
            /\ {<<there[i].component, there[i].identifier, Swapped(there[i].change_type)>> :
                    i \in 1..Len(there)}
               = {<<back[i].component, back[i].identifier, back[i].change_type>> :
                    i \in 1..Len(back)}

\* C16: for every class in both states diff_states emits exactly one added
\* change (component fields/methods, identifier Class.name) per field/method
\* name only in the second state, exactly one removed change per name only in
\* the first, and a modified change for every field or method whose record
\* differs; adding field id to class User yields exactly one change
\* {added, fields, User.id}.
C16_MemberChangesPerName ==
    diff_call.op = "diff_states" =>
        LET s1 == diff_call.state1
            s2 == diff_call.state2
            out == diff_call.report.changes
            Has(list, n) == \E i \in 1..Len(list) : list[i].name = n
            Rec(list, n) == {list[i] : i \in {k \in 1..Len(list) : list[k].name = n}}
            Emitted(t, comp, ident) ==
                Cardinality({i \in 1..Len(out) :
                    out[i] = [change_type |-> t, component |-> comp,
                              identifier |-> ident]})
            Expected(comp, l1, l2, n) ==
                IF Has(l2, n) /\ ~Has(l1, n) THEN "added"
                ELSE IF Has(l1, n) /\ ~Has(l2, n) THEN "removed"
                ELSE IF Has(l1, n) /\ Has(l2, n) /\ Rec(l1, n) # Rec(l2, n) THEN "modified"
                ELSE "none"
            Right(comp, c, l1, l2, n) ==
                \A t \in {"added", "removed", "modified"} :
                    Emitted(t, comp, c \o "." \o n)
                        = (IF Expected(comp, l1, l2, n) = t THEN 1 ELSE 0)
        IN  /\ diff_call.report.raised = ""
            /\ \A i \in 1..Len(s1.java_classes), j \in 1..Len(s2.java_classes) :
                  s1.java_classes[i].name = s2.java_classes[j].name =>
                      /\ \A n \in {"id", "name"} :
                            Right("fields", s1.java_classes[i].name,
                                  s1.java_classes[i].fields, s2.java_classes[j].fields, n)
                      /\ \A n \in {"get", "set"} :
                            Right("methods", s1.java_classes[i].name,
                                  s1.java_classes[i].methods, s2.java_classes[j].methods, n)

\* C17: the changes come as removed classes, added classes, then for each
\* class in both states, in sorted-name order, its field removals, additions,
\* modifications, method removals, additions, modifications, and the
\* build-status change last; two calls on the same pair of states return the
\* same sequence.
C17_ChangesInFixedOrder ==
    diff_call.op = "diff_states" =>
        LET out == diff_call.report.changes
            ClassOf(ch) ==
                CHOOSE c \in {"Account", "Order", "User"} :
                    \E m \in {"id", "name", "get", "set"} : ch.identifier = c \o "." \o m
            ClassRank(c) == IF c = "Account" THEN 1 ELSE IF c = "Order" THEN 2 ELSE 3
            TypeRank(t) == IF t = "removed" THEN 0 ELSE IF t = "added" THEN 1 ELSE 2
            Rank(ch) ==
                IF ch.component = "java_classes" THEN TypeRank(ch.change_type)
                ELSE IF ch.component = "build_status" THEN 100
                ELSE 10 * ClassRank(ClassOf(ch))
                     + (IF ch.component = "fields" THEN 0 ELSE 3)
                     + TypeRank(ch.change_type)
        IN  /\ diff_call.report.raised = ""
            /\ \A i \in 1..Len(out), j \in 1..Len(out) :
                  i < j => Rank(out[i]) <= Rank(out[j])
            /\ (diff_prev.op = "diff_states"
                /\ diff_prev.state1 = diff_call.state1
                /\ diff_prev.state2 = diff_call.state2)
                  => diff_prev.report = diff_call.report

\* C18: for a loaded state verify_state_consistency returns consistent = true
\* iff issues is empty; a class record whose file_path is set but whose file
\* no longer exists yields consistent = false with exactly one issue naming
\* that path; an mtime drift of more than 1 second only adds a warning and
\* never makes consistent false; the call leaves live state, snapshots and
\* history unchanged.
C18_ConsistentIffNoIssues ==
    (last.op = "verify_state_consistency" /\ Truthy(verify_call.state)) =>
        LET report == verify_call.report
            classes == verify_call.state.java_classes
            files == verify_call.disk.files
            Naming(list, path) == {k \in 1..Len(list) : list[k].path = path}
        IN  /\ "issues" \in report.keys
            /\ report.consistent = (report.issues = <<>>)
            /\ \A i \in 1..Len(classes) :
                  (classes[i].file_path # "" /\ files[classes[i].file_path] = 0) =>
                      /\ ~report.consistent
                      /\ Cardinality(Naming(report.issues, classes[i].file_path)) = 1
            /\ \A i \in 1..Len(classes) :
                  (/\ files[classes[i].file_path] # 0
                   /\ classes[i].last_modified # 0
                   /\ (files[classes[i].file_path] - classes[i].last_modified > 1
                       \/ classes[i].last_modified - files[classes[i].file_path] > 1)) =>
                      /\ Naming(report.warnings, classes[i].file_path) # {}
                      /\ Naming(report.issues, classes[i].file_path) = {}
            /\ current_state = verify_call.state
            /\ snapshots = verify_call.snapshots
            /\ transactions = verify_call.transactions

\* C18, amended: the same, for a loaded state with a project_path, the issue
\* of a missing class file and the warning of a drifted one being reported
\* when the project directory exists.
C18_ConsistentIffNoIssuesInProject ==
    (/\ last.op = "verify_state_consistency"
     /\ Truthy(verify_call.state)
     /\ verify_call.state.project_path # "") =>
        LET report == verify_call.report
            classes == verify_call.state.java_classes
            files == verify_call.disk.files
            Naming(list, path) == {k \in 1..Len(list) : list[k].path = path}
        IN  /\ "issues" \in report.keys
            /\ report.consistent = (report.issues = <<>>)
            /\ verify_call.disk.dir =>
                  /\ \A i \in 1..Len(classes) :
                        (classes[i].file_path # "" /\ files[classes[i].file_path] = 0) =>
                            /\ ~report.consistent
                            /\ Cardinality(Naming(report.issues, classes[i].file_path)) = 1
                  /\ \A i \in 1..Len(classes) :
                        (/\ files[classes[i].file_path] # 0
                         /\ classes[i].last_modified # 0
                         /\ (files[classes[i].file_path] - classes[i].last_modified > 1
                             \/ classes[i].last_modified - files[classes[i].file_path] > 1)) =>
                            /\ Naming(report.warnings, classes[i].file_path) # {}
                            /\ Naming(report.issues, classes[i].file_path) = {}
            /\ current_state = verify_call.state
            /\ snapshots = verify_call.snapshots
            /\ transactions = verify_call.transactions

\* a verification of a two-class state, one file deleted and the other
\* rewritten two seconds after analysis: one issue, one warning
C18_Witness ==
    /\ last.op = "verify_state_consistency"
    /\ Truthy(verify_call.state)
    /\ verify_call.state.project_path # ""
    /\ verify_call.disk.dir
    /\ Len(verify_call.state.java_classes) = 2
    /\ Len(verify_call.report.issues) = 1
    /\ Len(verify_call.report.warnings) = 1
    /\ ~verify_call.report.consistent
    /\ Len(snapshots) > 0

\* C19: read-modify-write sequences on one StateManager are mutually
\* exclusive: no call of one thread takes effect between the first and the
\* last call of the other thread's sequence, so a rollback by one thread
\* never discards a state update the other thread committed.
C19_SequencesMutuallyExclusive ==
    threads # <<>> =>
        \A t \in Threads, u \in Threads :
            t # u =>
                /\ ~(Mid(t) /\ Mid(u))
                /\ (/\ last.op = "rollback_transaction"
                    /\ last.tx = threads[t].tx
                    /\ threads[u].committed # None)
                      => current_state = threads[u].committed

\* C20: if a stage collaborator raises during a stage, end_failed is not
\* executed and build_status is not set to failed by the run, and the
\* pipeline state is the state as of the last completed stage: no update the
\* failing stage made before it raised is visible.
C20_RaisingStageLeavesNoPartialUpdate ==
    node = "raised" =>
        /\ executed["end_failed"] = 0
        /\ Get(graph, "build_status", "") # "failed"
        /\ graph = crash.state

\* C21: during a pipeline run started with retry_count = 0,
\* 0 <= retry_count <= max_retries holds in every state; retry_count never
\* decreases, is increased by exactly 1 on each pass through fix_test, and is
\* left unchanged by every other stage.
C21_RetryCountBounded ==
    /\ [](/\ 0 <= Get(graph, "retry_count", DefaultRetryCount)
          /\ Get(graph, "retry_count", DefaultRetryCount)
                <= Get(graph, "max_retries", DefaultMaxRetries))
    /\ [][Get(graph', "retry_count", DefaultRetryCount) =
              Get(graph, "retry_count", DefaultRetryCount)
                  + (IF node = "fix_test" THEN 1 ELSE 0)]_vars

\* a run that has passed through fix_test as often as max_retries allows
C21_Witness ==
    /\ node = "should_validate"
    /\ executed["fix_test"] = 2
    /\ graph.retry_count = 2
    /\ Get(graph, "max_retries", DefaultMaxRetries) = 2

\* C22: whenever should_validate is evaluated, the all_tests_passed value it
\* reads equals "every test class currently in test_classes has status
\* passed", so project_validator is executed only in states where no test
\* class has a status other than passed.
C22_AllTestsPassedIsRecomputed ==
    LET tests == Get(graph, "test_classes", <<>>)
        every_passed == \A i \in 1..Len(tests) : tests[i].status = "passed"
    IN  /\ node = "should_validate" =>
              Get(graph, "all_tests_passed", DefaultAllTestsPassed) = every_passed
        /\ node = "project_validator" => every_passed

\* C29: at every point of a pipeline run, including after generate_test is
\* re-entered from review_test, test_classes contains at most one entry per
\* test name.
C29_OneTestClassPerName ==
    LET tests == Get(graph, "test_classes", <<>>)
    IN  \A i \in 1..Len(tests), j \in 1..Len(tests) :
            tests[i].name = tests[j].name => i = j

\* C23: for begin_transaction, one or more set_state calls, then
\* rollback_transaction, the rollback discards the most recent snapshot taken
\* after tx.before (never tx.before itself or an older one), and the ring
\* holds no more snapshots after the rollback than it held before
\* begin_transaction.
C23_FailedAttemptDoesNotGrowRing ==
    (attempt.stage = "rolled" /\ attempt.sets >= 1) =>
        LET before == attempt.at_rollback.ring
        IN  /\ before # <<>>
            /\ before[Len(before)].operation = "set_state"
            /\ snapshots = SubSeq(before, 1, Len(before) - 1)
            /\ Len(snapshots) <= Len(attempt.at_begin.ring)

\* C24: if begin_transaction was called while the manager held no state and
\* set_state(S1) followed, rollback_transaction(tx, reason) leaves the live
\* state (get_state() == S1), the snapshot ring and the transaction history
\* unchanged.
C24_RollbackToNoStateIsNoOp ==
    (/\ attempt.stage = "rolled"
     /\ attempt.sets >= 1
     /\ ~Truthy(attempt.at_begin.live)) =>
        /\ Truthy(current_state)
        /\ CopyOut(current_state) = CopyOut(attempt.at_rollback.live)
        /\ snapshots = attempt.at_rollback.ring
        /\ transactions = attempt.at_rollback.hist

\* C25: a finished transaction is immutable and recorded once: every handle
\* appears in the history at most once, exactly once when
\* execute_with_rollback has returned or raised, and once a handle is in the
\* history its success, error and after-snapshot never change, whatever
\* operation follows (a later commit or rollback on the same handle included).
C25_FinishedTransactionImmutable ==
    /\ [](\A i, j \in 1..Len(transactions) :
              transactions[i] = transactions[j] => i = j)
    /\ [](last.op = "execute_with_rollback" =>
              \E i \in 1..Len(transactions) : transactions[i] = last.tx)
    /\ [][\A i \in 1..Len(transactions) :
              LET t == transactions[i]
              IN  /\ txObj'[t].success = txObj[t].success
                  /\ txObj'[t].error = txObj[t].error
                  /\ txObj'[t].after_snapshot = txObj[t].after_snapshot]_vars

C27_RingKeepsTheLatestTen ==
    /\ [](Len(snapshots) <= MaxSnapshots)
    /\ [][LET captures ==
                  /\ last'.op \in {"set_state", "begin_transaction", "commit_transaction"}
                  /\ last'.raised = ""
                  /\ Truthy(current_state')
              label == IF last'.op = "set_state" THEN "set_state"
                       ELSE txObj'[last'.tx].operation
          IN  IF captures
              THEN /\ get_snapshot' = [state_data |-> MakeSerializable(current_state'),
                                       operation |-> label]
                   /\ SubSeq(snapshots', 1, Len(snapshots') - 1) =
                          IF Len(snapshots) = MaxSnapshots
                          THEN Tail(snapshots) ELSE snapshots
              ELSE /\ Len(snapshots') <= Len(snapshots)
                   /\ snapshots' = SubSeq(snapshots, 1, Len(snapshots'))]_vars

C27_Witness ==
    /\ Len(snapshots) = MaxSnapshots
    /\ snapshots[1].operation # "set_state"
    /\ LedgerRolledBack # {}
    /\ last.op = "begin_transaction"
    /\ Truthy(current_state)
    /\ get_snapshot = txObj[last.tx].before_snapshot
    /\ Len(txObj) > MaxSnapshots

\* C28: a class whose analysis errors, in analyze_project or in
\* class_analysis, is excluded from generation: at the end of generate_test no
\* test class has it as target_class, and the class is not analysed again in
\* the same run.
C28_ErroredClassIsExcluded ==
    LET classes == Get(graph, "java_classes", <<>>)
        tests == Get(graph, "test_classes", <<>>)
    IN  /\ node = "review_test" =>
              \A i \in 1..Len(classes) :
                  (classes[i].status = "error" \/ analysis_results[i] = "error") =>
                      \A j \in 1..Len(tests) : tests[j].target_class # classes[i].name
        /\ node \in {"generate_test", "review_test"} =>
              \A i \in 1..Len(classes) :
                  classes[i].status = "error" => i \notin DOMAIN analysis_results
        /\ executed["analyze_project"] <= 1
        /\ executed["class_analysis"] <= 1

\* C30: for a CacheManager with max_size = m >= 1, after any sequence of put,
\* get, invalidate and clear calls (repeated put of the same key included)
\* the number of cached entries never exceeds m, and the key removed when put
\* has to make room is the least recently used one still in the cache.
C30_CacheIsBoundedLru ==
    /\ Cardinality(cache.keys) <= cache.max_size
    /\ (cache_call.op = "put" /\ cache_call.evicted # {}) =>
           cache_call.evicted = cache_call.lru

====
